---- MODULE Spec2Model ----
(***************************************************************************)
(* A model of the python-orm mapping layer (main.py): typed fields, column *)
(* bindings, the unit-of-work Session and the Query builder, together with *)
(* the relational store (sqlite3) that executes the statements they build. *)
(*                                                                         *)
(* Host and storage values are tagged pairs <<tag, n>>:                    *)
(*   <<"none",0>>  None / NULL          <<"int",n>>   an integer           *)
(*   <<"bool",b>>  False (0), True (1)  <<"str",i>>   the i-th string of   *)
(*   the table '', 'a', 'b' (i = 0 is the empty string; the index order is *)
(*   the strings' lexicographic order)                                     *)
(*   <<"date", <<y,m,d>>>>              a datetime.date                    *)
(*   <<"datetime", <<y,m,d,H,M,S,us>>>> a naive datetime.datetime          *)
(*   <<"text", chars>>  any other string, given by its characters; only    *)
(*   the ISO-8601 formatters produce these, and never '', 'a' or 'b'.      *)
(*                                                                         *)
(* SQL text is a sequence of clauses <<keyword, items>>, every item a      *)
(* sequence of tokens; string concatenation in the code is \o here.        *)
(***************************************************************************)
EXTENDS Integers, Sequences, FiniteSets, TLC

VARIABLES objs, new, dirty, deleted, db, q, last

vars == <<objs, new, dirty, deleted, db, q, last>>

(***************************************************************************)
(* Bounds of the model.                                                    *)
(***************************************************************************)
\* live record instances the caller holds at once
MaxObjs == 2
\* largest identity the store is let to generate before inserts stop
MaxRowid == 2
\* filter expressions accumulated on one query
MaxFilters == 2
\* rows of the table a query runs against
MaxQRows == 2
\* join directives accumulated on one query
MaxJoins == 2

(***************************************************************************)
(* Values.                                                                 *)
(***************************************************************************)
None == <<"none", 0>>
IntV(n) == <<"int", n>>
StrV(i) == <<"str", i>>
BoolV(b) == <<"bool", b>>

IsInt(v) == v[1] \in {"int", "bool"}

\* Python's ==: bool is a subclass of int and compares by number.
PyEq(a, b) == IF IsInt(a) /\ IsInt(b) THEN a[2] = b[2] ELSE a = b

\* Python's `value in (t1, ..., tn)`.
PyIn(v, tuple) == \E i \in 1..Len(tuple) : PyEq(v, tuple[i])

(***************************************************************************)
(* datetime: isoformat and fromisoformat.                                  *)
(***************************************************************************)
DateV(y, m, d) == <<"date", <<y, m, d>>>>
DateTimeV(y, m, d, H, M, S, us) == <<"datetime", <<y, m, d, H, M, S, us>>>>
TextV(chars) == <<"text", chars>>

\* the exception a conversion raises, as a value
ValueError == <<"error", 0>>

IsStr(v) == v[1] \in {"str", "text"}

\* the characters of a string
Chars(v) ==
    IF v[1] = "text" THEN v[2]
    ELSE IF v[2] = 0 THEN <<>> ELSE IF v[2] = 1 THEN <<"a">> ELSE <<"b">>

Digits == <<"0", "1", "2", "3", "4", "5", "6", "7", "8", "9">>

\* "%0<w>d" % n
RECURSIVE Pad(_, _)
Pad(n, w) == IF w = 0 THEN <<>> ELSE Pad(n \div 10, w - 1) \o <<Digits[(n % 10) + 1]>>

IsDigits(chars) == \A i \in 1..Len(chars) : \E k \in 1..10 : Digits[k] = chars[i]

\* int(chars) for a sequence of decimal digits
RECURSIVE Number(_)
Number(chars) ==
    IF chars = <<>> THEN 0
    ELSE 10 * Number(SubSeq(chars, 1, Len(chars) - 1))
             + (CHOOSE k \in 0..9 : Digits[k + 1] = chars[Len(chars)])

IsLeap(y) == (y % 4 = 0 /\ y % 100 # 0) \/ y % 400 = 0

DaysIn(y, m) ==
    IF m = 2 THEN (IF IsLeap(y) THEN 29 ELSE 28)
    ELSE IF m \in {4, 6, 9, 11} THEN 30 ELSE 31

\* date.isoformat(): YYYY-MM-DD
DateIso(ymd) == Pad(ymd[1], 4) \o <<"-">> \o Pad(ymd[2], 2) \o <<"-">> \o Pad(ymd[3], 2)

\* time part of datetime.isoformat(): HH:MM:SS, and .ffffff when microsecond is not 0
TimeIso(t) ==
    Pad(t[4], 2) \o <<":">> \o Pad(t[5], 2) \o <<":">> \o Pad(t[6], 2)
        \o (IF t[7] # 0 THEN <<".">> \o Pad(t[7], 6) ELSE <<>>)

\* datetime.isoformat(sep)
DateTimeIso(t, sep) == DateIso(t) \o <<sep>> \o TimeIso(t)

\* the text is YYYY-MM-DD with a month and a day of the calendar
IsDateText(chars) ==
    /\ Len(chars) = 10
    /\ chars[5] = "-"
    /\ chars[8] = "-"
    /\ IsDigits(SubSeq(chars, 1, 4) \o SubSeq(chars, 6, 7) \o SubSeq(chars, 9, 10))
    /\ Number(SubSeq(chars, 1, 4)) >= 1
    /\ Number(SubSeq(chars, 6, 7)) \in 1..12
    /\ Number(SubSeq(chars, 9, 10)) \in 1..DaysIn(Number(SubSeq(chars, 1, 4)),
                                                  Number(SubSeq(chars, 6, 7)))

\* the text is HH:MM:SS or HH:MM:SS.ffffff
IsTimeText(chars) ==
    /\ Len(chars) \in {8, 15}
    /\ chars[3] = ":"
    /\ chars[6] = ":"
    /\ IsDigits(SubSeq(chars, 1, 2) \o SubSeq(chars, 4, 5) \o SubSeq(chars, 7, 8))
    /\ Number(SubSeq(chars, 1, 2)) \in 0..23
    /\ Number(SubSeq(chars, 4, 5)) \in 0..59
    /\ Number(SubSeq(chars, 7, 8)) \in 0..59
    /\ Len(chars) = 15 => (chars[9] = "." /\ IsDigits(SubSeq(chars, 10, 15)))

DateOf(chars) ==
    <<Number(SubSeq(chars, 1, 4)), Number(SubSeq(chars, 6, 7)), Number(SubSeq(chars, 9, 10))>>

TimeOf(chars) ==
    <<Number(SubSeq(chars, 1, 2)), Number(SubSeq(chars, 4, 5)), Number(SubSeq(chars, 7, 8)),
      IF Len(chars) = 15 THEN Number(SubSeq(chars, 10, 15)) ELSE 0>>

\* datetime.date.fromisoformat, for the extended format YYYY-MM-DD
DateFromIso(chars) ==
    IF IsDateText(chars) THEN <<"date", DateOf(chars)>> ELSE ValueError

\* datetime.datetime.fromisoformat, for a date, or a date, one separator
\* character and a time
DateTimeFromIso(chars) ==
    IF IsDateText(chars) THEN <<"datetime", DateOf(chars) \o <<0, 0, 0, 0>>>>
    ELSE IF /\ Len(chars) > 11
            /\ IsDateText(SubSeq(chars, 1, 10))
            /\ IsTimeText(SubSeq(chars, 12, Len(chars)))
         THEN <<"datetime", DateOf(SubSeq(chars, 1, 10)) \o TimeOf(SubSeq(chars, 12, Len(chars)))>>
         ELSE ValueError

(***************************************************************************)
(* Field types.                                                            *)
(***************************************************************************)
\* Boolean.to_python
BooleanToPython(value) ==
    IF IsInt(value) THEN BoolV(IF value[2] = 0 THEN 0 ELSE 1) ELSE value

\* Boolean.to_db
BooleanToDb(value) == IF value[1] = "bool" THEN IntV(value[2]) ELSE value

\* Date.to_python
DateToPython(value) == IF IsStr(value) THEN DateFromIso(Chars(value)) ELSE value

\* a variant that writes month and day without the leading zero
DateToDbUnpadded(value) ==
    IF value[1] = "date"
    THEN TextV(Pad(value[2][1], 4) \o <<"-">> \o Pad(value[2][2], 1) \o <<"-">> \o Pad(value[2][3], 1))
    ELSE value

\* Date.to_db; a datetime is a date, and its isoformat() separates with T
DateToDb(value) ==
    IF value[1] = "date" THEN TextV(DateIso(value[2]))
    ELSE IF value[1] = "datetime" THEN TextV(DateTimeIso(value[2], "T"))
    ELSE value

\* DateTime.to_python
DateTimeToPython(value) == IF IsStr(value) THEN DateTimeFromIso(Chars(value)) ELSE value

\* DateTime.to_db
DateTimeToDb(value) ==
    IF value[1] = "datetime" THEN TextV(DateTimeIso(value[2], " ")) ELSE value

\* <type>.to_python; Integer, String and Text inherit Field's
ToPython(type, value) ==
    CASE type = "Boolean" -> BooleanToPython(value)
      [] type = "Date" -> DateToPython(value)
      [] type = "DateTime" -> DateTimeToPython(value)
      [] OTHER -> value

\* <type>.to_db; Integer, String and Text inherit Field's
ToDb(type, value) ==
    CASE type = "Boolean" -> BooleanToDb(value)
      [] type = "Date" -> DateToDb(value)
      [] type = "DateTime" -> DateTimeToDb(value)
      [] OTHER -> value

(***************************************************************************)
(* Record schemas: the declared models, each column <<name, type, pk>>.    *)
(* User is the schema of the test-suite; Note is a schema with no primary  *)
(* key.  Every column's type is given as a Field class.                    *)
(***************************************************************************)
Models == {"User", "Note"}

Tablename(model) == IF model = "User" THEN "users" ELSE "notes"

Columns(model) ==
    IF model = "User"
    THEN << <<"id", "Integer", TRUE>>, <<"name", "String", FALSE>>,
            <<"age", "Integer", FALSE>>, <<"is_active", "Boolean", FALSE>>,
            <<"bio", "Text", FALSE>>, <<"birthday", "Date", FALSE>>,
            <<"created_at", "DateTime", FALSE>> >>
    ELSE << <<"text", "String", FALSE>> >>

ColNames(model) == {Columns(model)[i][1] : i \in 1..Len(Columns(model))}

ColType(model, attr) ==
    LET i == CHOOSE i \in 1..Len(Columns(model)) : Columns(model)[i][1] = attr
    IN  Columns(model)[i][2]

NoPk == "-"

\* the loop `for attr, value in cls.__dict__.items(): if ... primary_key: break`
PkName(model) ==
    LET pks == {i \in 1..Len(Columns(model)) : Columns(model)[i][3]}
    IN  IF pks = {} THEN NoPk
        ELSE Columns(model)[CHOOSE i \in pks : \A j \in pks : i <= j][1]

\* Column.__get__ on an instance.  The column's type is a Field class, so the
\* first test (an instance of Field) fails; in the second test `type` is the
\* method's own parameter, the owner class, of which the column's type is no
\* instance either: the stored value is returned as it is.
GetAttr(obj, attr) == IF attr \in DOMAIN obj.dict THEN obj.dict[attr] ELSE None

\* Column.__set__ on an instance
SetAttr(obj, attr, value) ==
    [obj EXCEPT !.dict = (attr :> ToDb(ColType(obj.cls, attr), value)) @@ obj.dict]

\* the attributes of an instance's __dict__, in the schema's column order
DictAttrs(obj) ==
    SelectSeq([i \in 1..Len(Columns(obj.cls)) |-> Columns(obj.cls)[i][1]],
              LAMBDA a : a \in DOMAIN obj.dict)

(***************************************************************************)
(* The store: sqlite3.  db maps each created table to its column           *)
(* definitions and its rows, keyed by rowid; an INTEGER PRIMARY KEY column *)
(* is the rowid.                                                           *)
(***************************************************************************)
Clause(kw, items) == <<kw, items>>
Tok(s) == << <<s>> >>

SqlType(type) ==
    CASE type = "Integer" -> "INTEGER"
      [] type = "String" -> "VARCHAR"
      [] type = "Text" -> "TEXT"
      [] type = "Boolean" -> "BOOLEAN"
      [] type = "Date" -> "DATE"
      [] type = "DateTime" -> "DATETIME"

\* sqlite3's parameter binding: True/False are bound as 1/0, and the default
\* adapters bind a date as isoformat() and a datetime as isoformat(" ")
Bind(v) ==
    CASE v[1] = "bool" -> IntV(v[2])
      [] v[1] = "date" -> TextV(DateIso(v[2]))
      [] v[1] = "datetime" -> TextV(DateTimeIso(v[2], " "))
      [] OTHER -> v

Max(S) == CHOOSE x \in S : \A y \in S : y <= x

\* the ascending sequence of a finite set of integers
RECURSIVE SortedSeq(_)
SortedSeq(S) ==
    IF S = {} THEN <<>>
    ELSE LET m == CHOOSE x \in S : \A y \in S : x <= y
         IN  <<m>> \o SortedSeq(S \ {m})

TableColNames(tab) == [i \in 1..Len(tab.cols) |-> tab.cols[i][1]]

\* the INTEGER PRIMARY KEY column of a table, or NoPk
TablePk(tab) ==
    LET pks == {i \in 1..Len(tab.cols) : tab.cols[i] = <<tab.cols[i][1], "INTEGER", "PRIMARY KEY">>}
    IN  IF pks = {} THEN NoPk ELSE tab.cols[CHOOSE i \in pks : TRUE][1]

Failed(d) == [db |-> d, err |-> TRUE, rows |-> <<>>, description |-> <<>>, lastrowid |-> 0]
Done(d, rows, description, rowid) ==
    [db |-> d, err |-> FALSE, rows |-> rows, description |-> description, lastrowid |-> rowid]

\* SQL comparison of two non-NULL values: integers sort before text
SqlLess(a, b) ==
    IF IsInt(a) = IsInt(b) THEN a[2] < b[2] ELSE IsInt(a)

\* a WHERE condition; a comparison with NULL is never true
SqlHolds(a, op, b) ==
    IF a = None \/ b = None THEN FALSE
    ELSE CASE op = "=" -> a = b
           [] op = "<>" -> a # b
           [] op = "<" -> SqlLess(a, b)
           [] op = "<=" -> SqlLess(a, b) \/ a = b
           [] op = ">" -> SqlLess(b, a)
           [] op = ">=" -> SqlLess(b, a) \/ a = b
           [] OTHER -> FALSE

\* a variant without IF NOT EXISTS: the table is made anew
ExecCreateAnew(d, sql) ==
    IF Len(sql) # 2 \/ sql[2][1] # "(" \/ Len(sql[2][2]) = 0 THEN Failed(d)
    ELSE Done((sql[1][2][1][1] :> [cols |-> sql[2][2], rows |-> <<>>]) @@ d, <<>>, <<>>, 0)

ExecCreate(d, sql) ==
    IF Len(sql) # 2 \/ sql[2][1] # "(" \/ Len(sql[2][2]) = 0 THEN Failed(d)
    ELSE IF sql[1][2][1][1] \in DOMAIN d THEN Done(d, <<>>, <<>>, 0)
    ELSE Done((sql[1][2][1][1] :> [cols |-> sql[2][2], rows |-> <<>>]) @@ d, <<>>, <<>>, 0)

\* the row an INSERT builds: a named column takes its parameter, the others NULL
NewRow(tab, fields, params) ==
    [c \in {tab.cols[k][1] : k \in 1..Len(tab.cols)} |->
        LET given == {i \in 1..Len(fields) : fields[i] = c}
        IN  IF given = {} THEN None ELSE Bind(params[Max(given)])]

\* the rowid sqlite generates: one more than the largest in the table
AutoRowid(tab) == IF DOMAIN tab.rows = {} THEN 1 ELSE Max(DOMAIN tab.rows) + 1

PutRow(d, t, pk, row, rowid) ==
    IF rowid \in DOMAIN d[t].rows THEN Failed(d)
    ELSE Done([d EXCEPT ![t].rows =
                  (rowid :> (IF pk = NoPk THEN row ELSE [row EXCEPT ![pk] = IntV(rowid)])) @@ @],
              <<>>, <<>>, rowid)

\* a NULL primary key is generated; a given one must be an integer and unused
StoreRow(d, t, pk, row) ==
    IF pk = NoPk \/ row[pk] = None THEN PutRow(d, t, pk, row, AutoRowid(d[t]))
    ELSE IF row[pk][1] # "int" THEN Failed(d)
    ELSE PutRow(d, t, pk, row, row[pk][2])

InsertInto(d, t, fields, params) ==
    IF \E i \in 1..Len(fields) : \A k \in 1..Len(d[t].cols) : d[t].cols[k][1] # fields[i]
    THEN Failed(d)
    ELSE StoreRow(d, t, TablePk(d[t]), NewRow(d[t], fields, params))

ExecInsert(d, sql, params) ==
    IF \/ Len(sql) # 3 \/ sql[2][1] # "(" \/ sql[3][1] # "VALUES"
       \/ Len(sql[2][2]) = 0 \/ Len(sql[2][2]) # Len(sql[3][2])
       \/ Len(params) # Len(sql[3][2])
       \/ sql[1][2][1][1] \notin DOMAIN d
    THEN Failed(d)
    ELSE InsertInto(d, sql[1][2][1][1], [i \in 1..Len(sql[2][2]) |-> sql[2][2][i][1]], params)


\* The clauses that may follow a statement's head, in the grammar's order.
KwRank(kw) ==
    CASE kw = "JOIN" -> 1
      [] kw = "WHERE" -> 2
      [] kw = "GROUP BY" -> 3
      [] kw = "ORDER BY" -> 4
      [] kw = "LIMIT" -> 5
      [] OTHER -> 0

TailOk(tail, allowed) ==
    /\ \A i \in 1..Len(tail) : tail[i][1] \in allowed
    /\ \A i, j \in 1..Len(tail) :
          i < j => \/ KwRank(tail[i][1]) < KwRank(tail[j][1])
                   \/ tail[i][1] = "JOIN" /\ tail[j][1] = "JOIN"

HasClause(tail, kw) == \E i \in 1..Len(tail) : tail[i][1] = kw

ClauseItems(tail, kw) ==
    IF HasClause(tail, kw)
    THEN tail[CHOOSE i \in 1..Len(tail) : tail[i][1] = kw][2]
    ELSE <<>>

\* the rank of a value in ORDER BY: NULL, then integers, then text
SortKey(v) == IF v = None THEN <<0, 0>> ELSE IF IsInt(v) THEN <<1, v[2]>> ELSE <<2, v[2]>>

KeyLess(a, b) == a[1] < b[1] \/ (a[1] = b[1] /\ a[2] < b[2])

\* row r1 sorts before row r2 under the ORDER BY items from the k-th on
RECURSIVE RowBefore(_, _, _, _)
RowBefore(r1, r2, order, k) ==
    IF k > Len(order) THEN FALSE
    ELSE LET c == order[k][1]
             desc == Len(order[k]) = 2 /\ order[k][2] = "DESC"
             a == SortKey(IF desc THEN r2[c] ELSE r1[c])
             b == SortKey(IF desc THEN r1[c] ELSE r2[c])
         IN  IF KeyLess(a, b) THEN TRUE
             ELSE IF KeyLess(b, a) THEN FALSE
             ELSE RowBefore(r1, r2, order, k + 1)

RemoveAt(seq, m) == SubSeq(seq, 1, m - 1) \o SubSeq(seq, m + 1, Len(seq))

\* the rowids `ids` (in scan order) sorted by the ORDER BY items; ties keep scan order
RECURSIVE OrderIds(_, _, _)
OrderIds(rows, ids, order) ==
    IF ids = <<>> THEN <<>>
    ELSE LET least == {i \in 1..Len(ids) :
                          \A j \in 1..Len(ids) : ~RowBefore(rows[ids[j]], rows[ids[i]], order, 1)}
             m == CHOOSE i \in least : \A j \in least : i <= j
         IN  <<ids[m]>> \o OrderIds(rows, RemoveAt(ids, m), order)

\* the integers a LIMIT clause is read back as
LimitRange == -1..4

LimitOf(tok) == CHOOSE n \in LimitRange : ToString(n) = tok

CondsOk(tab, conds) ==
    \A i \in 1..Len(conds) :
        /\ Len(conds[i]) = 3
        /\ conds[i][3] = "?"
        /\ \E k \in 1..Len(tab.cols) : tab.cols[k][1] = conds[i][1]

\* the rowids, in scan order, of the rows that satisfy every WHERE condition
Hits(tab, conds, params) ==
    SelectSeq(SortedSeq(DOMAIN tab.rows), LAMBDA id :
        \A i \in 1..Len(conds) :
            SqlHolds(tab.rows[id][conds[i][1]], conds[i][2], Bind(params[i])))

Sorted(tab, hit, tail) ==
    IF HasClause(tail, "ORDER BY")
    THEN OrderIds(tab.rows, hit, ClauseItems(tail, "ORDER BY"))
    ELSE hit

\* LIMIT n: a negative n is no limit
Take(seq, n) == IF n < 0 \/ n >= Len(seq) THEN seq ELSE SubSeq(seq, 1, n)

LimitN(tail) ==
    IF HasClause(tail, "LIMIT") THEN LimitOf(ClauseItems(tail, "LIMIT")[1][1]) ELSE -1

\* the rowids a WHERE / ORDER BY / LIMIT tail selects, in result order
Selected(tab, tail, params) ==
    Take(Sorted(tab, Hits(tab, ClauseItems(tail, "WHERE"), params), tail), LimitN(tail))

Range(seq) == {seq[i] : i \in 1..Len(seq)}

\* UPDATE and DELETE take WHERE, and ORDER BY / LIMIT only in a build with
\* SQLITE_ENABLE_UPDATE_DELETE_LIMIT (`build`); ORDER BY needs a LIMIT.
DmlTailOk(tab, tail, params, build) ==
    /\ TailOk(tail, {"WHERE", "ORDER BY", "LIMIT"})
    /\ HasClause(tail, "ORDER BY") => HasClause(tail, "LIMIT")
    /\ HasClause(tail, "LIMIT") => build
    /\ CondsOk(tab, ClauseItems(tail, "WHERE"))
    /\ Len(params) = Len(ClauseItems(tail, "WHERE"))
    /\ \A i \in 1..Len(ClauseItems(tail, "ORDER BY")) :
          \E k \in 1..Len(tab.cols) : tab.cols[k][1] = ClauseItems(tail, "ORDER BY")[i][1]

\* the rows `targets` take the SET values; a SET of the primary key moves the row
UpdateRows(d, t, pk, sets, params, targets) ==
    LET setting(c) == {i \in 1..Len(sets) : sets[i][1] = c}
        changed(id) == [c \in DOMAIN d[t].rows[id] |->
                           IF setting(c) = {} THEN d[t].rows[id][c]
                           ELSE Bind(params[Max(setting(c))])]
        ids == DOMAIN d[t].rows
    IN  IF pk = NoPk \/ setting(pk) = {} \/ targets = {}
        THEN Done([d EXCEPT ![t].rows = [id \in ids |-> IF id \in targets THEN changed(id) ELSE @[id]]],
                  <<>>, <<>>, 0)
        ELSE LET key == Bind(params[Max(setting(pk))])
             IN  IF key[1] # "int" THEN Failed(d)
                 ELSE IF Cardinality(targets) > 1 \/ key[2] \in (ids \ targets) THEN Failed(d)
                 ELSE Done([d EXCEPT ![t].rows =
                               [id \in (ids \ targets) \cup {key[2]} |->
                                   IF id = key[2] THEN changed(CHOOSE old \in targets : TRUE)
                                   ELSE @[id]]],
                           <<>>, <<>>, 0)

UpdateTable(d, t, sets, tail, params, wparams, build) ==
    IF \/ ~CondsOk(d[t], sets)
       \/ \E i \in 1..Len(sets) : sets[i][2] # "="
       \/ ~DmlTailOk(d[t], tail, wparams, build)
    THEN Failed(d)
    ELSE UpdateRows(d, t, TablePk(d[t]), sets, params, Range(Selected(d[t], tail, wparams)))

ExecUpdate(d, sql, params, build) ==
    IF Len(sql) < 2 \/ sql[1][2][1][1] \notin DOMAIN d THEN Failed(d)
    ELSE IF sql[2][1] # "SET" \/ Len(sql[2][2]) = 0 \/ Len(params) < Len(sql[2][2]) THEN Failed(d)
    ELSE UpdateTable(d, sql[1][2][1][1], sql[2][2], SubSeq(sql, 3, Len(sql)), params,
                     SubSeq(params, Len(sql[2][2]) + 1, Len(params)), build)

DeleteRows(d, t, targets) ==
    Done([d EXCEPT ![t].rows = [id \in DOMAIN d[t].rows \ targets |-> @[id]]], <<>>, <<>>, 0)

DeleteFrom(d, t, tail, params, build) ==
    IF ~DmlTailOk(d[t], tail, params, build) THEN Failed(d)
    ELSE DeleteRows(d, t, Range(Selected(d[t], tail, params)))

ExecDelete(d, sql, params, build) ==
    IF sql[1][2][1][1] \notin DOMAIN d THEN Failed(d)
    ELSE DeleteFrom(d, sql[1][2][1][1], SubSeq(sql, 2, Len(sql)), params, build)

\* the rows of a table in scan order
ScanRows(tab) ==
    [i \in 1..Cardinality(DOMAIN tab.rows) |-> tab.rows[SortedSeq(DOMAIN tab.rows)[i]]]

RECURSIVE Flatten(_)
Flatten(seqs) == IF seqs = <<>> THEN <<>> ELSE Head(seqs) \o Flatten(Tail(seqs))

\* the JOIN items of a statement's tail, each
\* <<other_table, "ON", left_table, ".", left, op, right_table, ".", right>>
JoinItems(tail) ==
    [i \in 1..Len(SelectSeq(tail, LAMBDA c : c[1] = "JOIN")) |->
        SelectSeq(tail, LAMBDA c : c[1] = "JOIN")[i][2][1]]

\* the tables of the FROM clause, in order
FromTables(t, joins) == <<t>> \o [i \in 1..Len(joins) |-> joins[i][1]]

HasColumn(d, t, c) == t \in DOMAIN d /\ \E k \in 1..Len(d[t].cols) : d[t].cols[k][1] = c

\* every joined table exists and is named once (a table named twice makes its
\* columns ambiguous), and every ON operand is a column of a table in scope
JoinsOk(d, t, joins) ==
    /\ \A i \in 1..Len(joins) :
          /\ Len(joins[i]) = 9
          /\ joins[i][1] \in DOMAIN d
          /\ \E k \in 1..i : FromTables(t, joins)[k] = joins[i][3]
          /\ \E k \in 1..(i + 1) : FromTables(t, joins)[k] = joins[i][7]
          /\ HasColumn(d, joins[i][3], joins[i][5])
          /\ HasColumn(d, joins[i][7], joins[i][9])
          /\ joins[i][6] \in {"=", "<>", "<", "<=", ">", ">="}
    /\ \A i, j \in 1..(Len(joins) + 1) :
          FromTables(t, joins)[i] = FromTables(t, joins)[j] => i = j

\* the columns of SELECT *: those of every table of the FROM clause, in order
Description(d, t, joins) ==
    Flatten([i \in 1..(Len(joins) + 1) |-> TableColNames(d[FromTables(t, joins)[i]])])

\* one join, as a nested loop with the rows so far outside
JoinRows(rows, others, on) ==
    Flatten([i \in 1..Len(rows) |->
                SelectSeq([k \in 1..Len(others) |-> others[k] @@ rows[i]],
                          LAMBDA m : SqlHolds(m[on[5]], on[6], m[on[9]]))])

RECURSIVE JoinAll(_, _, _, _)
JoinAll(d, rows, joins, k) ==
    IF k > Len(joins) THEN rows
    ELSE JoinAll(d, JoinRows(rows, ScanRows(d[joins[k][1]]), joins[k]), joins, k + 1)

\* the rows that satisfy every WHERE condition
Where(rows, conds, params) ==
    SelectSeq(rows, LAMBDA row :
        \A i \in 1..Len(conds) : SqlHolds(row[conds[i][1]], conds[i][2], Bind(params[i])))

\* the row that stands for each group of GROUP BY: sqlite takes the columns of
\* SELECT * from one row of the group, the first or the last one it visited
\* depending on the build; the groups come in ascending key order
Representatives(rows, cols, build) ==
    {i \in 1..Len(rows) :
        \A j \in 1..Len(rows) :
            (\A c \in 1..Len(cols) : rows[j][cols[c][1]] = rows[i][cols[c][1]])
                => IF build THEN j <= i ELSE i <= j}

Pick(rows, ids) == [i \in 1..Len(ids) |-> rows[ids[i]]]

Grouped(rows, tail, build) ==
    IF HasClause(tail, "GROUP BY")
    THEN Pick(rows, OrderIds(rows,
                             SortedSeq(Representatives(rows, ClauseItems(tail, "GROUP BY"), build)),
                             ClauseItems(tail, "GROUP BY")))
    ELSE rows

Ordered(rows, tail) ==
    IF HasClause(tail, "ORDER BY")
    THEN Pick(rows, OrderIds(rows, [i \in 1..Len(rows) |-> i], ClauseItems(tail, "ORDER BY")))
    ELSE rows

\* every column a clause names is a column of the result
NamesOk(description, items) ==
    \A i \in 1..Len(items) :
        /\ Len(items[i]) >= 1
        /\ \E k \in 1..Len(description) : description[k] = items[i][1]

SelectRows(d, description, rows, tail, params, build) ==
    IF \/ \E i \in 1..Len(ClauseItems(tail, "WHERE")) :
             Len(ClauseItems(tail, "WHERE")[i]) # 3 \/ ClauseItems(tail, "WHERE")[i][3] # "?"
       \/ ~NamesOk(description, ClauseItems(tail, "WHERE"))
       \/ ~NamesOk(description, ClauseItems(tail, "GROUP BY"))
       \/ ~NamesOk(description, ClauseItems(tail, "ORDER BY"))
       \/ Len(params) # Len(ClauseItems(tail, "WHERE"))
    THEN Failed(d)
    ELSE Done(d, Take(Ordered(Grouped(Where(rows, ClauseItems(tail, "WHERE"), params), tail, build),
                              tail),
                      LimitN(tail)),
              description, 0)

SelectFrom(d, t, tail, joins, params, build) ==
    IF \/ ~TailOk(tail, {"JOIN", "WHERE", "GROUP BY", "ORDER BY", "LIMIT"})
       \/ ~JoinsOk(d, t, joins)
    THEN Failed(d)
    ELSE SelectRows(d, Description(d, t, joins), JoinAll(d, ScanRows(d[t]), joins, 1),
                    tail, params, build)

ExecSelect(d, sql, params, build) ==
    IF Len(sql) < 2 \/ sql[2][1] # "FROM" THEN Failed(d)
    ELSE IF sql[2][2][1][1] \notin DOMAIN d THEN Failed(d)
    ELSE SelectFrom(d, sql[2][2][1][1], SubSeq(sql, 3, Len(sql)),
                    JoinItems(SubSeq(sql, 3, Len(sql))), params, build)

\* engine.execute(sql, params), on a build of sqlite: `build` tells whether it
\* takes LIMIT in UPDATE and DELETE, and which row of a group it shows
Execute(d, sql, params, build) ==
    CASE sql[1][1] = "CREATE TABLE IF NOT EXISTS" -> ExecCreate(d, sql)
      [] sql[1][1] = "INSERT INTO" -> ExecInsert(d, sql, params)
      [] sql[1][1] = "UPDATE" -> ExecUpdate(d, sql, params, build)
      [] sql[1][1] = "DELETE FROM" -> ExecDelete(d, sql, params, build)
      [] sql[1][1] = "SELECT *" -> ExecSelect(d, sql, params, build)
      [] OTHER -> Failed(d)

(***************************************************************************)
(* Metadata.create_all                                                     *)
(***************************************************************************)
\* Base.__subclasses__(), in declaration order
Subclasses == <<"User", "Note">>

CreateSql(model) ==
    << Clause("CREATE TABLE IF NOT EXISTS", Tok(Tablename(model))),
       Clause("(", [i \in 1..Len(Columns(model)) |->
                      IF Columns(model)[i][3]
                      THEN <<Columns(model)[i][1], SqlType(Columns(model)[i][2]), "PRIMARY KEY">>
                      ELSE <<Columns(model)[i][1], SqlType(Columns(model)[i][2])>>]) >>

\* one executed CREATE TABLE IF NOT EXISTS
Created(C, table, cursor) ==
    [db |-> cursor.db, raised |-> cursor.err,
     log |-> Append(C.log, [verb |-> "CREATE TABLE IF NOT EXISTS", table |-> table,
                            ok |-> ~cursor.err])]

\* the loop over Base.__subclasses__() from the k-th on; an exception ends it
RECURSIVE CreateFrom(_, _)
CreateFrom(C, k) ==
    IF k > Len(Subclasses) \/ C.raised THEN C
    ELSE CreateFrom(Created(C, Tablename(Subclasses[k]),
                            Execute(C.db, CreateSql(Subclasses[k]), <<>>, FALSE)),
                    k + 1)

\* Metadata.create_all(engine): the store it leaves, whether it raised and the
\* statements it executed
create_all(d) == CreateFrom([db |-> d, raised |-> FALSE, log |-> <<>>], 1)

(***************************************************************************)
(* Session.  A session state S is [objs, new, dirty, deleted, db] extended *)
(* during a flush with `raised` (a store call failed) and `log` (the       *)
(* statements executed, in order).                                         *)
(***************************************************************************)
PkUnsetValues == <<None, IntV(0), StrV(0), BoolV(0)>>

\* a variant that takes only None for unset
PkUnsetOnlyNone(v) == v = None

\* `pk_value not in (None, 0, '', False)` is false
PkUnset(v) == PyIn(v, PkUnsetValues)

\* Session.add
add(S, o) ==
    LET pk_name == PkName(S.objs[o].cls) IN
    IF pk_name # NoPk /\ ~PkUnset(GetAttr(S.objs[o], pk_name))
    THEN [S EXCEPT !.dirty = @ \cup {o}]
    ELSE [S EXCEPT !.new = @ \cup {o}]

\* Session.add_all
RECURSIVE add_all(_, _)
add_all(S, os) ==
    IF os = <<>> THEN S ELSE add_all(add(S, Head(os)), Tail(os))

\* Base.__init__ and the loop of Session.update: setattr for every keyword
RECURSIVE SetAll(_, _, _)
SetAll(obj, kwargs, attrs) ==
    IF attrs = <<>> THEN obj
    ELSE SetAll(SetAttr(obj, Head(attrs), kwargs[Head(attrs)]), kwargs, Tail(attrs))

KwSeq(model, kwargs) ==
    SelectSeq([i \in 1..Len(Columns(model)) |-> Columns(model)[i][1]],
              LAMBDA a : a \in DOMAIN kwargs)

\* a variant of the delete phase that executes nothing and unstages the instance
FlushDeleteNothing(S, o) == [S EXCEPT !.deleted = @ \ {o}]

\* Session.update
update(S, o, kwargs) ==
    [S EXCEPT !.objs[o] = SetAll(@, kwargs, KwSeq(@.cls, kwargs)),
              !.dirty = @ \cup {o}]

\* Session.delete
delete(S, o) == [S EXCEPT !.deleted = @ \cup {o}]

\* one executed statement: its verb and table, the instance it was built for, the
\* primary-key value it carried or produced, the columns it names, and whether the
\* store accepted it
Stmt(verb, table, o, key, cols, ok) ==
    [verb |-> verb, table |-> table, obj |-> o, key |-> key, cols |-> cols, ok |-> ok]

\* the values of the attributes `attrs` of an instance, each through to_db
DbValues(obj, attrs) ==
    [i \in 1..Len(attrs) |-> ToDb(ColType(obj.cls, attrs[i]), obj.dict[attrs[i]])]

InsertSql(obj) ==
    << Clause("INSERT INTO", Tok(Tablename(obj.cls))),
       Clause("(", [i \in 1..Len(DictAttrs(obj)) |-> <<DictAttrs(obj)[i]>>]),
       Clause("VALUES", [i \in 1..Len(DictAttrs(obj)) |-> <<"?">>]) >>

\* a variant that leaves the instance's primary key as it was
InsertedKeepsPk(S, o, table, pk_name, cursor) ==
    IF cursor.err
    THEN [S EXCEPT !.raised = TRUE,
                   !.log = Append(@, Stmt("INSERT", table, o, None, DictAttrs(S.objs[o]), FALSE))]
    ELSE [S EXCEPT !.db = cursor.db,
                   !.new = @ \ {o},
                   !.log = Append(@, Stmt("INSERT", table, o, IntV(cursor.lastrowid),
                                          DictAttrs(S.objs[o]), TRUE))]

\* after the INSERT: the primary key takes cursor.lastrowid, the instance leaves new
Inserted(S, o, table, pk_name, cursor) ==
    IF cursor.err
    THEN [S EXCEPT !.raised = TRUE,
                   !.log = Append(@, Stmt("INSERT", table, o, None, DictAttrs(S.objs[o]), FALSE))]
    ELSE [S EXCEPT !.db = cursor.db,
                   !.objs[o] = IF pk_name # NoPk
                               THEN SetAttr(@, pk_name, IntV(cursor.lastrowid))
                               ELSE @,
                   !.new = @ \ {o},
                   !.log = Append(@, Stmt("INSERT", table, o, IntV(cursor.lastrowid),
                                          DictAttrs(S.objs[o]), TRUE))]

\* flush, insert phase: one iteration of `for obj in list(self.new)`
FlushInsert(S, o) ==
    Inserted(S, o, Tablename(S.objs[o].cls), PkName(S.objs[o].cls),
             Execute(S.db, InsertSql(S.objs[o]),
                     DbValues(S.objs[o], DictAttrs(S.objs[o])), FALSE))

\* a variant that also sets the primary key
UpdateFieldsAll(obj, pk_name) == DictAttrs(obj)

\* the attributes an UPDATE sets: those of __dict__ other than the primary key
UpdateFields(obj, pk_name) == SelectSeq(DictAttrs(obj), LAMBDA a : a # pk_name)

UpdateSql(obj, pk_name) ==
    << Clause("UPDATE", Tok(Tablename(obj.cls))),
       Clause("SET", [i \in 1..Len(UpdateFields(obj, pk_name)) |->
                         <<UpdateFields(obj, pk_name)[i], "=", "?">>]),
       Clause("WHERE", << <<pk_name, "=", "?">> >>) >>

\* after the UPDATE: the instance leaves dirty
Updated(S, o, table, pk_value, fields, cursor) ==
    IF cursor.err
    THEN [S EXCEPT !.raised = TRUE,
                   !.log = Append(@, Stmt("UPDATE", table, o, pk_value, fields, FALSE))]
    ELSE [S EXCEPT !.db = cursor.db,
                   !.dirty = @ \ {o},
                   !.log = Append(@, Stmt("UPDATE", table, o, pk_value, fields, TRUE))]

\* a variant that raises for an instance without primary key
FlushUpdateRaising(S, o) ==
    IF PkName(S.objs[o].cls) = NoPk THEN [S EXCEPT !.raised = TRUE]
    ELSE Updated(S, o, Tablename(S.objs[o].cls), GetAttr(S.objs[o], PkName(S.objs[o].cls)),
                 UpdateFields(S.objs[o], PkName(S.objs[o].cls)),
                 Execute(S.db, UpdateSql(S.objs[o], PkName(S.objs[o].cls)),
                         Append(DbValues(S.objs[o], UpdateFields(S.objs[o], PkName(S.objs[o].cls))),
                                GetAttr(S.objs[o], PkName(S.objs[o].cls))),
                         FALSE))

\* flush, update phase: one iteration of `for obj in list(self.dirty)`
FlushUpdate(S, o) ==
    IF PkName(S.objs[o].cls) = NoPk THEN S
    ELSE Updated(S, o, Tablename(S.objs[o].cls), GetAttr(S.objs[o], PkName(S.objs[o].cls)),
                 UpdateFields(S.objs[o], PkName(S.objs[o].cls)),
                 Execute(S.db, UpdateSql(S.objs[o], PkName(S.objs[o].cls)),
                         Append(DbValues(S.objs[o], UpdateFields(S.objs[o], PkName(S.objs[o].cls))),
                                GetAttr(S.objs[o], PkName(S.objs[o].cls))),
                         FALSE))

DeleteSql(obj, pk_name) ==
    << Clause("DELETE FROM", Tok(Tablename(obj.cls))),
       Clause("WHERE", << <<pk_name, "=", "?">> >>) >>

\* after the DELETE: the instance leaves deleted
Removed(S, o, table, pk_value, cursor) ==
    IF cursor.err
    THEN [S EXCEPT !.raised = TRUE,
                   !.log = Append(@, Stmt("DELETE", table, o, pk_value, <<>>, FALSE))]
    ELSE [S EXCEPT !.db = cursor.db,
                   !.deleted = @ \ {o},
                   !.log = Append(@, Stmt("DELETE", table, o, pk_value, <<>>, TRUE))]

\* flush, delete phase: one iteration of `for obj in list(self.deleted)`
FlushDelete(S, o) ==
    IF PkName(S.objs[o].cls) = NoPk THEN S
    ELSE Removed(S, o, Tablename(S.objs[o].cls), GetAttr(S.objs[o], PkName(S.objs[o].cls)),
                 Execute(S.db, DeleteSql(S.objs[o], PkName(S.objs[o].cls)),
                         <<GetAttr(S.objs[o], PkName(S.objs[o].cls))>>, FALSE))

FlushOne(S, o, phase) ==
    CASE phase = "new" -> FlushInsert(S, o)
      [] phase = "dirty" -> FlushUpdate(S, o)
      [] phase = "deleted" -> FlushDelete(S, o)

\* a variant that goes on with the next instance after an exception
RECURSIVE FlushLoopGoesOn(_, _, _)
FlushLoopGoesOn(S, order, phase) ==
    IF order = <<>> THEN S
    ELSE FlushLoopGoesOn(FlushOne(S, Head(order), phase), Tail(order), phase)

\* one of flush's three loops over `order`, a snapshot of a pending set; an
\* exception ends the flush
RECURSIVE FlushLoop(_, _, _)
FlushLoop(S, order, phase) ==
    IF order = <<>> \/ S.raised THEN S
    ELSE FlushLoop(FlushOne(S, Head(order), phase), Tail(order), phase)

\* a variant that runs the update loop before the insert loop
flushUpdatesFirst(S, no, do, xo) ==
    FlushLoop(FlushLoop(FlushLoop(S, do, "dirty"), no, "new"), xo, "deleted")

\* Session.flush, the pending sets iterated in the orders no, do, xo
flush(S, no, do, xo) ==
    FlushLoop(FlushLoop(FlushLoop(S, no, "new"), do, "dirty"), xo, "deleted")

\* the orders in which a set can be iterated
Orders(set) ==
    {s \in [1..Cardinality(set) -> set] : \A i, j \in DOMAIN s : s[i] = s[j] => i = j}

(***************************************************************************)
(* Column comparison operators and ordering directives.                    *)
(***************************************************************************)
ColumnEq(name, other) == <<name, "=", other>>
ColumnNe(name, other) == <<name, "<>", other>>
ColumnLt(name, other) == <<name, "<", other>>
\* a variant of __le__ that compares strictly
ColumnLeStrict(name, other) == <<name, "<", other>>
ColumnLe(name, other) == <<name, "<=", other>>
ColumnGt(name, other) == <<name, ">", other>>
ColumnGe(name, other) == <<name, ">=", other>>

\* the expression `column <op> other` the caller writes
Compare(name, op, other) ==
    CASE op = "==" -> ColumnEq(name, other)
      [] op = "!=" -> ColumnNe(name, other)
      [] op = "<" -> ColumnLt(name, other)
      [] op = "<=" -> ColumnLe(name, other)
      [] op = ">" -> ColumnGt(name, other)
      [] op = ">=" -> ColumnGe(name, other)

ColumnAsc(name) == <<name, "ASC">>
ColumnDesc(name) == <<name, "DESC">>

(***************************************************************************)
(* Query.  A bare column in order_by / group_by is <<name>>.               *)
(***************************************************************************)
\* Query.__init__
Query(model) ==
    [model |-> model, filter_exprs |-> <<>>, limit |-> None,
     order_by |-> <<>>, group_by |-> <<>>, joins |-> <<>>]

NoQuery == Query("-")

\* Query.filter
filter(qry, exprs) == [qry EXCEPT !.filter_exprs = @ \o exprs]

\* a variant that takes the keywords from the last to the first
RECURSIVE filter_by_reversed(_, _, _)
filter_by_reversed(qry, kwargs, keys) ==
    IF keys = <<>> THEN qry
    ELSE filter(filter_by_reversed(qry, kwargs, Tail(keys)),
                <<ColumnEq(Head(keys), kwargs[Head(keys)])>>)

\* Query.filter_by, the keywords taken in the order `keys`
RECURSIVE filter_by(_, _, _)
filter_by(qry, kwargs, keys) ==
    IF keys = <<>> THEN qry
    ELSE filter_by(filter(qry, <<ColumnEq(Head(keys), kwargs[Head(keys)])>>), kwargs, Tail(keys))

\* Query.limit
limit(qry, n) == [qry EXCEPT !.limit = n]

\* Query.order_by
order_by(qry, columns) == [qry EXCEPT !.order_by = columns]

\* Query.group_by
group_by(qry, columns) == [qry EXCEPT !.group_by = columns]

\* Query.join
join(qry, other_model, on_expr) == [qry EXCEPT !.joins = Append(@, <<other_model, on_expr>>)]

Compiled(sql, params) == [sql |-> sql, params |-> params]

\* a variant that compiles only the first filter expression
_build_where_clause_first(qry) ==
    IF qry.filter_exprs # <<>>
    THEN Compiled(<<Clause("WHERE", << <<qry.filter_exprs[1][1], qry.filter_exprs[1][2], "?">> >>)>>,
                  <<qry.filter_exprs[1][3]>>)
    ELSE Compiled(<<>>, <<>>)

\* str(value), as an f-string would write an integer or a string into the text
Repr(v) ==
    IF v[1] \in {"int", "bool"} THEN ToString(v[2])
    ELSE IF v[1] = "str" THEN <<"", "a", "b">>[v[2] + 1]
    ELSE "None"

\* a variant that writes every value into the text
_build_where_clause_inline(qry) ==
    IF qry.filter_exprs # <<>>
    THEN Compiled(<<Clause("WHERE", [i \in 1..Len(qry.filter_exprs) |->
                                        <<qry.filter_exprs[i][1], qry.filter_exprs[i][2],
                                          Repr(qry.filter_exprs[i][3])>>])>>,
                  <<>>)
    ELSE Compiled(<<>>, <<>>)

_build_where_clause(qry) ==
    LET conditions == [i \in 1..Len(qry.filter_exprs) |->
                          <<qry.filter_exprs[i][1], qry.filter_exprs[i][2], "?">>]
        params == [i \in 1..Len(qry.filter_exprs) |-> qry.filter_exprs[i][3]]
    IN  IF conditions # <<>>
        THEN Compiled(<<Clause("WHERE", conditions)>>, params)
        ELSE Compiled(<<>>, <<>>)

_build_group_by_clause(qry) ==
    IF qry.group_by # <<>>
    THEN <<Clause("GROUP BY", [i \in 1..Len(qry.group_by) |-> <<qry.group_by[i][1]>>])>>
    ELSE <<>>

_build_order_by_clause(qry) ==
    IF qry.order_by # <<>>
    THEN <<Clause("ORDER BY", qry.order_by)>>
    ELSE <<>>

_build_limit_clause(qry) ==
    IF qry.limit # None
    THEN <<Clause("LIMIT", Tok(ToString(qry.limit[2])))>>
    ELSE <<>>

\* a variant that puts ORDER BY before GROUP BY
_build_sql_clauses_swapped(qry) ==
    Compiled(_build_where_clause(qry).sql \o _build_order_by_clause(qry)
                 \o _build_group_by_clause(qry) \o _build_limit_clause(qry),
             _build_where_clause(qry).params)

_build_sql_clauses(qry) ==
    LET w == _build_where_clause(qry)
    IN  Compiled(w.sql \o _build_group_by_clause(qry) \o _build_order_by_clause(qry)
                       \o _build_limit_clause(qry),
                 w.params)

\* "FROM <table>" followed by one JOIN clause per join
_build_from_clause(qry) ==
    LET table == Tablename(qry.model)
    IN  <<Clause("FROM", Tok(table))>> \o
        [i \in 1..Len(qry.joins) |->
            LET other_table == Tablename(qry.joins[i][1])
                on == qry.joins[i][2]
                left_table == IF on[1] \in ColNames(qry.model) THEN table ELSE other_table
                right_table == IF left_table = table THEN other_table ELSE table
            IN  Clause("JOIN", << <<other_table, "ON", left_table, ".", on[1], on[2],
                                    right_table, ".", on[3]>> >>)]

\* the rehydration loop of Query.all: one instance's __dict__ per row
Rehydrate(model, cursor) ==
    [i \in 1..Len(cursor.rows) |->
        [c \in Range(cursor.description) |->
            IF c \in ColNames(model)
            THEN ToPython(ColType(model, c), cursor.rows[i][c])
            ELSE cursor.rows[i][c]]]

\* what a terminal call of the query leaves: the store, the query object, whether
\* it raised, the instances it returned and the statement it executed
Outcome(d, qry, raised, result, stmt) ==
    [db |-> d, q |-> qry, raised |-> raised, result |-> result, log |-> <<stmt>>]

SelectSql(qry) ==
    <<Clause("SELECT *", <<>>)>> \o _build_from_clause(qry) \o _build_sql_clauses(qry).sql

\* a to_python of the rehydration loop raised
Raises(results) ==
    \E i \in 1..Len(results) : \E c \in DOMAIN results[i] : results[i][c] = ValueError

Returned(d, qry, stmt, results) ==
    IF Raises(results) THEN Outcome(d, qry, TRUE, <<>>, stmt)
    ELSE Outcome(d, qry, FALSE, results, stmt)

Fetched(d, qry, stmt, cursor) ==
    IF cursor.err THEN Outcome(d, qry, TRUE, <<>>, stmt)
    ELSE Returned(d, qry, stmt, Rehydrate(qry.model, cursor))

\* Query.all
all(qry, d, build) ==
    Fetched(d, qry, Compiled(SelectSql(qry), _build_sql_clauses(qry).params),
            Execute(d, SelectSql(qry), _build_sql_clauses(qry).params, build))

FirstOf(r) == [r EXCEPT !.result = IF @ = <<>> THEN <<>> ELSE <<@[1]>>]

\* Query.first: the first instance of limit(1).all(), or None (an empty result)
first(qry, d, build) == FirstOf(all(limit(qry, IntV(1)), d, build))

LastOf(r) == [r EXCEPT !.result = IF @ = <<>> THEN <<>> ELSE <<@[Len(@)]>>]

\* Query.last
query_last(qry, d, build) == LastOf(all(qry, d, build))

\* the JOIN part of the FROM clause, appended when the query has joins
JoinPart(qry) == IF qry.joins # <<>> THEN Tail(_build_from_clause(qry)) ELSE <<>>

QueryUpdateSql(qry, keys) ==
    <<Clause("UPDATE", Tok(Tablename(qry.model))),
      Clause("SET", [i \in 1..Len(keys) |-> <<keys[i], "=", "?">>])>>
        \o JoinPart(qry) \o _build_sql_clauses(qry).sql

SetValues(qry, kwargs, keys) ==
    [i \in 1..Len(keys) |-> ToDb(ColType(qry.model, keys[i]), kwargs[keys[i]])]

Executed(qry, stmt, cursor) == Outcome(cursor.db, qry, cursor.err, <<>>, stmt)

\* Query.update
query_update(qry, kwargs, d, build) ==
    Executed(qry,
             Compiled(QueryUpdateSql(qry, KwSeq(qry.model, kwargs)),
                      SetValues(qry, kwargs, KwSeq(qry.model, kwargs))
                          \o _build_sql_clauses(qry).params),
             Execute(d, QueryUpdateSql(qry, KwSeq(qry.model, kwargs)),
                     SetValues(qry, kwargs, KwSeq(qry.model, kwargs))
                         \o _build_sql_clauses(qry).params,
                     build))

QueryDeleteSql(qry) ==
    <<Clause("DELETE FROM", Tok(Tablename(qry.model)))>>
        \o JoinPart(qry) \o _build_sql_clauses(qry).sql

\* Query.delete
query_delete(qry, d, build) ==
    Executed(qry, Compiled(QueryDeleteSql(qry), _build_sql_clauses(qry).params),
             Execute(d, QueryDeleteSql(qry), _build_sql_clauses(qry).params, build))

(***************************************************************************)
(* The state machine.  objs holds the record instances the caller has, by  *)
(* identity; new, dirty and deleted are the session's pending sets; db is  *)
(* the store; q is the query object under construction; last describes the *)
(* operation that ran last: the keyword arguments of a Query.update,       *)
(* whether it raised, the statements a flush executed, whether the store's *)
(* commit was called and the instances a query returned.                   *)
(***************************************************************************)
Last(op, args, raised, log, committed, result) ==
    [op |-> op, args |-> args, raised |-> raised, log |-> log, committed |-> committed,
     result |-> result]

Session == [objs |-> objs, new |-> new, dirty |-> dirty, deleted |-> deleted, db |-> db]

Objs == 1..Len(objs)

\* engine, Base.metadata.create_all(engine) and Session(), as in TestQuery.setUp
Init ==
    /\ objs = <<>>
    /\ new = {}
    /\ dirty = {}
    /\ deleted = {}
    /\ db = create_all(<<>>).db
    /\ q = NoQuery
    /\ last = Last("init", <<>>, FALSE, <<>>, FALSE, <<>>)

\* Base.metadata.create_all(engine)
CreateAll ==
    /\ \E C \in {create_all(db)} :
          /\ db' = C.db
          /\ last' = Last("create_all", <<>>, C.raised, C.log, FALSE, <<>>)
    /\ UNCHANGED <<objs, new, dirty, deleted, q>>

\* instance = Model(**kwargs)
Construct(model, kwargs) ==
    /\ Len(objs) < MaxObjs
    /\ objs' = Append(objs, SetAll([cls |-> model, dict |-> <<>>], kwargs, KwSeq(model, kwargs)))
    /\ last' = Last("construct", <<>>, FALSE, <<>>, FALSE, <<>>)
    /\ UNCHANGED <<new, dirty, deleted, db, q>>

\* instance.attr = value
Assign(o, attr, value) ==
    /\ objs' = [objs EXCEPT ![o] = SetAttr(@, attr, value)]
    /\ last' = Last("assign", <<>>, FALSE, <<>>, FALSE, <<>>)
    /\ UNCHANGED <<new, dirty, deleted, db, q>>

Become(S) ==
    /\ objs' = S.objs
    /\ new' = S.new
    /\ dirty' = S.dirty
    /\ deleted' = S.deleted
    /\ db' = S.db

\* session.add(instance)
Add(o) ==
    /\ Become(add(Session, o))
    /\ last' = Last("add", <<>>, FALSE, <<>>, FALSE, <<>>)
    /\ UNCHANGED q

\* session.add_all(instances)
AddAll(os) ==
    /\ Become(add_all(Session, os))
    /\ last' = Last("add_all", <<>>, FALSE, <<>>, FALSE, <<>>)
    /\ UNCHANGED q

\* session.update(instance, **kwargs)
Update(o, kwargs) ==
    /\ Become(update(Session, o, kwargs))
    /\ last' = Last("update", <<>>, FALSE, <<>>, FALSE, <<>>)
    /\ UNCHANGED q

\* session.delete(instance)
Delete(o) ==
    /\ Become(delete(Session, o))
    /\ last' = Last("delete", <<>>, FALSE, <<>>, FALSE, <<>>)
    /\ UNCHANGED q

\* the largest rowid of a table, 0 when it is empty
TopRowid(tab) == IF DOMAIN tab.rows = {} THEN 0 ELSE Max(DOMAIN tab.rows)

\* the store is not asked for an identity beyond MaxRowid
FlushBound ==
    \A t \in DOMAIN db :
        TopRowid(db[t]) + Cardinality({o \in new : Tablename(objs[o].cls) = t}) <= MaxRowid

Flushed(no, do, xo) ==
    flush([objs |-> objs, new |-> new, dirty |-> dirty, deleted |-> deleted, db |-> db,
           raised |-> FALSE, log |-> <<>>], no, do, xo)

\* session.flush()
Flush ==
    /\ FlushBound
    /\ \E no \in Orders(new), do \in Orders(dirty), xo \in Orders(deleted) :
          \E S \in {Flushed(no, do, xo)} :
              /\ Become(S)
              /\ last' = Last("flush", <<>>, S.raised, S.log, FALSE, <<>>)
    /\ UNCHANGED q

\* session.commit(): flush, then the store's commit
Commit ==
    /\ FlushBound
    /\ \E no \in Orders(new), do \in Orders(dirty), xo \in Orders(deleted) :
          \E S \in {Flushed(no, do, xo)} :
              /\ Become(S)
              /\ last' = Last("commit", <<>>, S.raised, S.log, ~S.raised, <<>>)
    /\ UNCHANGED q

\* instances = session.query(model).all(); the caller keeps the keep-th one.
\* The query has no group_by, so the rows do not depend on the build.
QueryAll(model, keep) ==
    \E r \in {all(Query(model), db, FALSE)} :
    /\ keep <= Len(r.result)
    /\ keep > 0 => Len(objs) < MaxObjs
    /\ objs' = IF keep > 0 THEN Append(objs, [cls |-> model, dict |-> r.result[keep]]) ELSE objs
    /\ last' = Last("all", <<>>, r.raised, <<>>, FALSE, r.result)
    /\ UNCHANGED <<new, dirty, deleted, db, q>>

(***************************************************************************)
(* Spec: one session from its construction, under every session operation.*)
(* The caller builds User(), User(name='a') and Note(text='a'), assigns or *)
(* updates name = 'b', and keeps at most MaxObjs instances.                *)
(***************************************************************************)
Kwargs(model) ==
    IF model = "User" THEN {<<>>, ("name" :> StrV(1))} ELSE {("text" :> StrV(1))}

UpdateKwargs(model) ==
    IF model = "User" THEN {<<>>, ("name" :> StrV(2))} ELSE {<<>>}

Next ==
    \/ CreateAll
    \/ \E model \in Models : \E kwargs \in Kwargs(model) : Construct(model, kwargs)
    \/ \E o \in Objs : objs[o].cls = "User" /\ Assign(o, "name", StrV(2))
    \/ \E o \in Objs : Add(o)
    \/ \E o1, o2 \in Objs : AddAll(<<o1, o2>>)
    \/ \E o \in Objs : \E kwargs \in UpdateKwargs(objs[o].cls) : Update(o, kwargs)
    \/ \E o \in Objs : Delete(o)
    \/ Flush
    \/ Commit
    \/ \E model \in Models : \E keep \in 0..MaxRowid : QueryAll(model, keep)

Spec == Init /\ [][Next]_vars

(***************************************************************************)
(* StageSpec: the staging operations on instances whose primary key the    *)
(* caller set to each kind of value: None, 0, '', False and 1.             *)
(***************************************************************************)
PkInputs == {None, IntV(0), StrV(0), BoolV(0), IntV(1)}

PkKwargs(model) ==
    IF model = "User" THEN {<<>>} \cup {("id" :> k) : k \in PkInputs} ELSE {<<>>}

StageNext ==
    \/ \E model \in Models : \E kwargs \in PkKwargs(model) : Construct(model, kwargs)
    \/ \E o \in Objs : \E k \in PkInputs : objs[o].cls = "User" /\ Assign(o, "id", k)
    \/ \E o \in Objs : Add(o)
    \/ \E o1, o2 \in Objs : AddAll(<<o1, o2>>)
    \/ \E o \in Objs : \E kwargs \in PkKwargs(objs[o].cls) : Update(o, kwargs)
    \/ \E o \in Objs : Delete(o)

StageSpec == Init /\ [][StageNext]_vars

(***************************************************************************)
(* QSpec: the query builder against a users table that holds up to         *)
(* MaxQRows rows.                                                          *)
(***************************************************************************)
\* q = session.query(model)
NewQuery(model) ==
    /\ q' = Query(model)
    /\ last' = Last("query", <<>>, FALSE, <<>>, FALSE, <<>>)
    /\ UNCHANGED <<objs, new, dirty, deleted, db>>

\* q.filter(*exprs), each expression written as `Model.column <op> value`
Filter(written) ==
    /\ q # NoQuery
    /\ Len(q.filter_exprs) + Len(written) <= MaxFilters
    /\ q' = filter(q, [i \in 1..Len(written) |->
                          Compare(written[i][1], written[i][2], written[i][3])])
    /\ last' = Last("filter", written, FALSE, <<>>, FALSE, <<>>)
    /\ UNCHANGED <<objs, new, dirty, deleted, db>>

\* q.filter_by(**kwargs), the keywords written as <<name, value>> in call order
FilterBy(written) ==
    /\ q # NoQuery
    /\ Len(q.filter_exprs) + Len(written) <= MaxFilters
    /\ q' = filter_by(q, [k \in {written[i][1] : i \in 1..Len(written)} |->
                            written[CHOOSE i \in 1..Len(written) : written[i][1] = k][2]],
                      [i \in 1..Len(written) |-> written[i][1]])
    /\ last' = Last("filter_by", written, FALSE, <<>>, FALSE, <<>>)
    /\ UNCHANGED <<objs, new, dirty, deleted, db>>

\* q.limit(n)
Limit(n) ==
    /\ q # NoQuery
    /\ q' = limit(q, n)
    /\ last' = Last("limit", <<>>, FALSE, <<>>, FALSE, <<>>)
    /\ UNCHANGED <<objs, new, dirty, deleted, db>>

Ran(op, args, r) ==
    /\ q' = r.q
    /\ db' = r.db
    /\ last' = Last(op, args, r.raised, r.log, FALSE, r.result)
    /\ UNCHANGED <<objs, new, dirty, deleted>>

\* q.all()
All(build) == q # NoQuery /\ Ran("all", <<>>, all(q, db, build))

\* q.first()
First(build) == q # NoQuery /\ Ran("first", <<>>, first(q, db, build))

\* q.last()
QueryLast(build) == q # NoQuery /\ Ran("last", <<>>, query_last(q, db, build))

\* q.order_by(*columns)
OrderBy(columns) ==
    /\ q # NoQuery
    /\ q' = order_by(q, columns)
    /\ last' = Last("order_by", <<>>, FALSE, <<>>, FALSE, <<>>)
    /\ UNCHANGED <<objs, new, dirty, deleted, db>>

\* q.group_by(*columns)
GroupBy(columns) ==
    /\ q # NoQuery
    /\ q' = group_by(q, columns)
    /\ last' = Last("group_by", <<>>, FALSE, <<>>, FALSE, <<>>)
    /\ UNCHANGED <<objs, new, dirty, deleted, db>>

\* q.join(other_model, on_expr)
Join(other_model, on_expr) ==
    /\ q # NoQuery
    /\ Len(q.joins) < MaxJoins
    /\ q' = join(q, other_model, on_expr)
    /\ last' = Last("join", <<>>, FALSE, <<>>, FALSE, <<>>)
    /\ UNCHANGED <<objs, new, dirty, deleted, db>>

\* q.update(**kwargs), on a store built with or without UPDATE ... LIMIT
QueryUpdate(kwargs, build) == q # NoQuery /\ Ran("query_update", kwargs, query_update(q, kwargs, db, build))

\* q.delete()
QueryDelete(build) == q # NoQuery /\ Ran("query_delete", <<>>, query_delete(q, db, build))

CompareOps == {"==", "!=", "<", "<=", ">", ">="}

\* the filter expressions a caller writes: <<column, Python operator, value>>
FilterInputs ==
    {<<"age", op, IntV(2)>> : op \in CompareOps}
        \cup {<<"name", "==", StrV(1)>>, <<"age", "==", None>>}

\* the rows the users table holds before the query
QRowKinds ==
    {[name |-> StrV(1), age |-> IntV(1)], [name |-> StrV(1), age |-> IntV(2)],
     [name |-> StrV(2), age |-> IntV(3)], [name |-> StrV(2), age |-> None]}

\* the keyword arguments a caller passes to Query.update
QUpdateKwargs == {<<>>, ("name" :> StrV(2)), ("age" :> IntV(2))}

QRow(id, kind) ==
    [c \in ColNames("User") |->
        CASE c = "id" -> IntV(id)
          [] c = "name" -> kind.name
          [] c = "age" -> kind.age
          [] OTHER -> None]

QInit ==
    /\ objs = <<>>
    /\ new = {}
    /\ dirty = {}
    /\ deleted = {}
    /\ \E ids \in SUBSET (1..MaxQRows) : \E kinds \in [ids -> QRowKinds] :
          db = [create_all(<<>>).db EXCEPT !["users"].rows = [id \in ids |-> QRow(id, kinds[id])]]
    /\ q = NoQuery
    /\ last = Last("init", <<>>, FALSE, <<>>, FALSE, <<>>)

QNext ==
    \/ NewQuery("User")
    \/ \E e \in FilterInputs : Filter(<<e>>)
    \/ FilterBy(<< <<"name", StrV(1)>> >>)
    \/ \E n \in 1..MaxQRows : Limit(IntV(n))
    \/ \E build \in BOOLEAN : All(build)
    \/ \E build \in BOOLEAN : First(build)
    \/ \E build \in BOOLEAN : \E kwargs \in QUpdateKwargs : QueryUpdate(kwargs, build)
    \/ \E build \in BOOLEAN : QueryDelete(build)

QSpec == QInit /\ [][QNext]_vars

(***************************************************************************)
(* BSpec: every directive of the query builder, in any order, and every    *)
(* terminal call, against the users 'a' and 'b' of age 2 and one note 'a'. *)
(***************************************************************************)
BInit ==
    /\ objs = <<>>
    /\ new = {}
    /\ dirty = {}
    /\ deleted = {}
    /\ db = [create_all(<<>>).db EXCEPT
                !["users"].rows = (1 :> QRow(1, [name |-> StrV(1), age |-> IntV(2)]))
                                      @@ (2 :> QRow(2, [name |-> StrV(2), age |-> IntV(2)])),
                !["notes"].rows = (1 :> [text |-> StrV(1)])]
    /\ q = NoQuery
    /\ last = Last("init", <<>>, FALSE, <<>>, FALSE, <<>>)

\* the keyword arguments a caller passes to filter_by, in call order
FilterByInputs ==
    { << <<"name", StrV(1)>> >>,
      << <<"name", StrV(1)>>, <<"age", IntV(2)>> >>,
      << <<"age", IntV(2)>>, <<"name", StrV(1)>> >> }

\* the arguments of order_by: none, User.name, User.name.desc()
OrderByInputs == { <<>>, << <<"name">> >>, <<ColumnDesc("name")>> }

\* the keyword arguments a caller passes to Query.update
BUpdateKwargs == {("name" :> StrV(2)), ("name" :> StrV(2)) @@ ("age" :> IntV(1))}

BNext ==
    \/ NewQuery("User")
    \/ Filter(<< <<"age", "==", IntV(2)>> >>)
    \/ \E written \in FilterByInputs : FilterBy(written)
    \/ \E n \in 0..1 : Limit(IntV(n))
    \/ \E columns \in OrderByInputs : OrderBy(columns)
    \/ GroupBy(<< <<"age">> >>)
    \/ Join("Note", <<"name", "=", "text">>)
    \/ \E build \in BOOLEAN : All(build)
    \/ \E build \in BOOLEAN : First(build)
    \/ \E build \in BOOLEAN : QueryLast(build)
    \/ \E build \in BOOLEAN : \E kwargs \in BUpdateKwargs : QueryUpdate(kwargs, build)
    \/ \E build \in BOOLEAN : QueryDelete(build)

BSpec == BInit /\ [][BNext]_vars

(***************************************************************************)
(* FieldSpec: one session in which the caller gives a column of each field *)
(* type a value of that type, by the constructor or by assignment, commits *)
(* and queries.  An instance carries one such value at a time.             *)
(***************************************************************************)
\* the host values of a column's type that the caller uses
FieldValues(attr) ==
    CASE attr = "name" -> {StrV(1), StrV(2)}
      [] attr = "age" -> {IntV(1), IntV(2)}
      [] attr = "is_active" -> {BoolV(1), BoolV(0)}
      [] attr = "bio" -> {StrV(1), StrV(2)}
      [] attr = "birthday" -> {DateV(2000, 1, 1), DateV(1999, 12, 31)}
      [] attr = "created_at" -> {DateTimeV(2023, 1, 1, 12, 0, 0, 0),
                                 DateTimeV(2024, 6, 11, 8, 30, 0, 5)}

FieldCols == ColNames("User") \ {"id"}

\* the constructor keywords: one column, one value of its type
FieldKwargs == UNION {{(attr :> v) : v \in FieldValues(attr)} : attr \in FieldCols}

\* the instance has no value in a column other than attr and the primary key
OnlyField(obj, attr) ==
    \A c \in DOMAIN obj.dict \ {"id", attr} : obj.dict[c] = None

FieldNext ==
    \/ \E kwargs \in FieldKwargs : Construct("User", kwargs)
    \/ \E o \in Objs : \E attr \in FieldCols : \E v \in FieldValues(attr) :
          OnlyField(objs[o], attr) /\ Assign(o, attr, v)
    \/ \E o \in Objs : Add(o)
    \/ Commit
    \/ \E keep \in 0..MaxRowid : QueryAll("User", keep)

FieldSpec == Init /\ [][FieldNext]_vars

(***************************************************************************)
(* Properties.                                                             *)
(***************************************************************************)
\* the primary-key columns a schema declares
PkColumns(model) == {Columns(model)[i][1] : i \in {k \in 1..Len(Columns(model)) : Columns(model)[k][3]}}

\* an instance with no primary-key binding, or whose primary key is absent, None,
\* 0, '' or False
PkIsUnset(obj) ==
    \A c \in PkColumns(obj.cls) :
        \/ c \notin DOMAIN obj.dict
        \/ obj.dict[c] \in {<<"none", 0>>, <<"int", 0>>, <<"str", 0>>, <<"bool", 0>>}

\* the value of column c on a row satisfies `c op w`; no comparison with NULL does
HoldsFor(row, e) ==
    /\ row[e[1]] # <<"none", 0>>
    /\ e[3] # <<"none", 0>>
    /\ row[e[1]][1] = e[3][1]
    /\ \/ e[2] = "=" /\ row[e[1]][2] = e[3][2]
       \/ e[2] = "<>" /\ row[e[1]][2] # e[3][2]
       \/ e[2] = "<" /\ row[e[1]][2] < e[3][2]
       \/ e[2] = "<=" /\ row[e[1]][2] <= e[3][2]
       \/ e[2] = ">" /\ row[e[1]][2] > e[3][2]
       \/ e[2] = ">=" /\ row[e[1]][2] >= e[3][2]

\* the rowids of the rows that satisfy every filter expression of `exprs`
Matching(rows, exprs) ==
    {id \in DOMAIN rows : \A i \in 1..Len(exprs) : HoldsFor(rows[id], exprs[i])}

UserRows == db["users"].rows

\* C1: after any sequence of Session operations every record instance is a member
\* of at most one of the pending sets new, dirty and deleted.
C1_AtMostOnePendingSet ==
    \A o \in Objs :
        /\ ~(o \in new /\ o \in dirty)
        /\ ~(o \in new /\ o \in deleted)
        /\ ~(o \in dirty /\ o \in deleted)

\* C2: add(instance) puts the instance into new when its schema has no primary
\* key or its primary-key value is unset (None, 0, '' or False) and into dirty
\* otherwise; the call changes only that one set, and never deleted.
C2_AddRouting ==
    [][\A o \in Objs : Add(o) =>
          /\ deleted' = deleted
          /\ IF PkIsUnset(objs[o])
             THEN new' = new \cup {o} /\ dirty' = dirty
             ELSE dirty' = dirty \cup {o} /\ new' = new]_vars

\* an add has just run; the session holds an instance with primary key False in
\* new only and one with primary key 1 in dirty only
C2_Routed ==
    /\ last.op = "add"
    /\ \E o \in new \ dirty : "id" \in DOMAIN objs[o].dict /\ objs[o].dict["id"] = <<"bool", 0>>
    /\ \E o \in dirty \ new : "id" \in DOMAIN objs[o].dict /\ objs[o].dict["id"] = <<"int", 1>>

VerbRank(verb) == CASE verb = "INSERT" -> 1 [] verb = "UPDATE" -> 2 [] verb = "DELETE" -> 3

\* C3: within one flush every INSERT is executed before any UPDATE and every
\* UPDATE before any DELETE.
C3_FlushOrder ==
    last.op \in {"flush", "commit"} =>
        \A i, j \in 1..Len(last.log) :
            i < j => VerbRank(last.log[i].verb) <= VerbRank(last.log[j].verb)

\* a flush executed an INSERT, an UPDATE and a DELETE
C3_AllThreePhases ==
    /\ last.op \in {"flush", "commit"}
    /\ {last.log[i].verb : i \in 1..Len(last.log)} = {"INSERT", "UPDATE", "DELETE"}

\* C4: after a flush or commit that returns without raising, new, dirty and
\* deleted are all empty.
C4_EmptyAfterFlush ==
    (last.op \in {"flush", "commit"} /\ ~last.raised) =>
        (new = {} /\ dirty = {} /\ deleted = {})

\* C5: a successful flush removes an instance that is in exactly one pending set
\* from that set, and a commit that directly follows a successful commit executes
\* no statement.
C5_UniqueFlush ==
    [][(last'.op \in {"flush", "commit"} /\ ~last'.raised) =>
          /\ \A o \in Objs :
                /\ (o \in new /\ o \notin dirty /\ o \notin deleted) => o \notin new'
                /\ (o \in dirty /\ o \notin new /\ o \notin deleted) => o \notin dirty'
                /\ (o \in deleted /\ o \notin new /\ o \notin dirty) => o \notin deleted'
          /\ (last.op = "commit" /\ ~last.raised /\ last'.op = "commit") => last'.log = <<>>]_vars

\* the accepted INSERT statements of the last flush for a schema with a primary key
KeyedInserts ==
    {i \in 1..Len(last.log) :
        /\ last.log[i].verb = "INSERT"
        /\ last.log[i].ok
        /\ PkColumns(objs[last.log[i].obj].cls) # {}}

\* C6: after flush inserts an instance whose schema has a primary key, the
\* instance's primary key equals the identity the store generated for its own
\* INSERT, and two instances inserted into one table by one flush have different
\* primary keys.
C6_PkIsLastrowid ==
    last.op \in {"flush", "commit"} =>
        /\ \A i \in KeyedInserts :
              \A c \in PkColumns(objs[last.log[i].obj].cls) :
                  /\ c \in DOMAIN objs[last.log[i].obj].dict
                  /\ objs[last.log[i].obj].dict[c] = last.log[i].key
                  /\ last.log[i].key[1] = "int"
        /\ \A i, j \in KeyedInserts :
              (i # j /\ last.log[i].table = last.log[j].table) =>
                  \A c \in PkColumns(objs[last.log[i].obj].cls) :
                      objs[last.log[i].obj].dict[c] # objs[last.log[j].obj].dict[c]

\* one flush inserted two instances into the users table
C6_TwoInserted ==
    /\ last.op \in {"flush", "commit"}
    /\ \E i, j \in KeyedInserts : i # j /\ last.log[i].table = last.log[j].table

\* C7: starting from an empty table, adding n new instances and calling commit
\* makes query(model).all() return exactly n records, one per added instance
\* with that instance's field values.
C7_InsertThenQuery ==
    [][\A model \in Models :
          (/\ last'.op = "commit"
           /\ Tablename(model) \in DOMAIN db
           /\ DOMAIN db[Tablename(model)].rows = {}
           /\ dirty = {}
           /\ deleted = {}
           /\ new # {}
           /\ \A o \in new : objs[o].cls = model)
          => /\ ~last'.raised
             /\ \E order \in Orders(new) :
                   /\ Len(all(Query(model), db', FALSE).result) = Len(order)
                   /\ \A i \in 1..Len(order) : \A c \in ColNames(model) :
                         all(Query(model), db', FALSE).result[i][c] = GetAttr(objs'[order[i]], c)]_vars

\* the instance o has its primary key set, some other attribute, and a row
UpdatableUser(o) ==
    /\ objs[o].cls = "User"
    /\ ~PkIsUnset(objs[o])
    /\ DOMAIN objs[o].dict # {"id"}
    /\ objs[o].dict["id"][1] = "int"
    /\ objs[o].dict["id"][2] \in DOMAIN UserRows

\* C8: for an instance with its primary key set (as returned by a query), after
\* assigning a field, add(instance) and commit the next query returns the
\* instance's values for the row with that primary key; the flush inserts no
\* row, changes no row with a different primary key and does not rewrite the
\* primary-key column.
C8_UpdateThenReadBack ==
    [][\A o \in Objs :
          (/\ last'.op = "commit"
           /\ new = {}
           /\ deleted = {}
           /\ dirty = {o}
           /\ UpdatableUser(o))
          => /\ ~last'.raised
             /\ \E i \in 1..Len(all(Query("User"), db', FALSE).result) :
                   /\ all(Query("User"), db', FALSE).result[i]["id"] = objs[o].dict["id"]
                   /\ \A c \in DOMAIN objs[o].dict :
                         all(Query("User"), db', FALSE).result[i][c] = objs[o].dict[c]
             /\ DOMAIN db'["users"].rows = DOMAIN UserRows
             /\ \A id \in DOMAIN UserRows :
                   /\ id # objs[o].dict["id"][2] => db'["users"].rows[id] = UserRows[id]
                   /\ db'["users"].rows[id]["id"] = UserRows[id]["id"]
                   /\ \A c \in DOMAIN UserRows[id] :
                         c \notin DOMAIN objs[o].dict => db'["users"].rows[id][c] = UserRows[id][c]
             /\ \A k \in 1..Len(last'.log) :
                   /\ last'.log[k].verb = "UPDATE"
                   /\ "id" \notin {last'.log[k].cols[n] : n \in 1..Len(last'.log[k].cols)}]_vars

\* a commit updated the row of an instance that a query returned, and the row
\* carries the assigned name
C8_UpdatedRow ==
    /\ last.op = "commit"
    /\ ~last.raised
    /\ Len(last.log) = 1
    /\ last.log[1].verb = "UPDATE"
    /\ DOMAIN objs[last.log[1].obj].dict = ColNames("User")
    /\ objs[last.log[1].obj].dict["name"] = <<"str", 2>>
    /\ \E id \in DOMAIN UserRows :
          /\ UserRows[id]["id"] = objs[last.log[1].obj].dict["id"]
          /\ UserRows[id]["name"] = <<"str", 2>>

\* every row that fails a filter expression of the query is left unchanged
NonMatchingKept ==
    \A id \in DOMAIN UserRows \ Matching(UserRows, q.filter_exprs) :
        id \in DOMAIN db'["users"].rows /\ db'["users"].rows[id] = UserRows[id]

\* every row that satisfies the filter expressions carries the fields of kwargs
MatchingUpdated(kwargs) ==
    /\ DOMAIN db'["users"].rows = DOMAIN UserRows
    /\ \A id \in Matching(UserRows, q.filter_exprs) :
          db'["users"].rows[id] =
              [c \in DOMAIN UserRows[id] |->
                  IF c \in DOMAIN kwargs THEN kwargs[c] ELSE UserRows[id][c]]

\* every row that satisfies the filter expressions is removed
MatchingDeleted ==
    DOMAIN db'["users"].rows = DOMAIN UserRows \ Matching(UserRows, q.filter_exprs)

SqlOp(op) == IF op = "==" THEN "=" ELSE IF op = "!=" THEN "<>" ELSE op

\* C10: for each comparison operator and any sequence of filter calls, every
\* filter call accumulates the expression (column, op, value) as written, and
\* all() returns exactly the rows for which every accumulated filter expression
\* holds: no matching row is missing and no other row is returned.
C10_FilterExact ==
    [][/\ last'.op = "filter" =>
             q'.filter_exprs = q.filter_exprs \o
                 [i \in 1..Len(last'.args) |->
                     <<last'.args[i][1], SqlOp(last'.args[i][2]), last'.args[i][3]>>]
       /\ (last'.op = "all" /\ q.limit = None) =>
             /\ ~last'.raised
             /\ Len(last'.result) = Cardinality(Matching(UserRows, q.filter_exprs))
             /\ {last'.result[i] : i \in 1..Len(last'.result)}
                    = {UserRows[id] : id \in Matching(UserRows, q.filter_exprs)}]_vars

\* all() ran with two filter expressions, one of them <=, and returned one of
\* the table's two rows
C10_Filtered ==
    /\ last.op = "all"
    /\ q.limit = None
    /\ Len(q.filter_exprs) = 2
    /\ \E i \in 1..2 : q.filter_exprs[i][2] = "<="
    /\ Len(last.result) = 1
    /\ Cardinality(DOMAIN UserRows) = 2

\* C11: filter_by(k1=v1, ..., kn=vn) leaves the query as
\* filter(col_k1 == v1, ..., col_kn == vn) does: the triples (ki, '=', vi) are
\* appended in keyword order after the expressions already accumulated, and
\* limit, order-by, group-by and joins are unchanged.
C11_FilterByIsFilter ==
    [][last'.op = "filter_by" =>
          /\ q' = filter(q, [i \in 1..Len(last'.args) |->
                                ColumnEq(last'.args[i][1], last'.args[i][2])])
          /\ q'.filter_exprs = q.filter_exprs \o
                 [i \in 1..Len(last'.args) |-> <<last'.args[i][1], "=", last'.args[i][2]>>]
          /\ q'.model = q.model
          /\ q'.limit = q.limit
          /\ q'.order_by = q.order_by
          /\ q'.group_by = q.group_by
          /\ q'.joins = q.joins]_vars

\* filter_by(age=2, name='a') ran on a query that carries a limit, an order-by,
\* a group-by and a join
C11_TwoKeywords ==
    /\ last.op = "filter_by"
    /\ Len(last.args) = 2
    /\ last.args[1][1] = "age"
    /\ q.filter_exprs = << <<"age", "=", <<"int", 2>>>>, <<"name", "=", <<"str", 1>>>> >>
    /\ q.limit # None
    /\ q.order_by # <<>>
    /\ q.group_by # <<>>
    /\ q.joins # <<>>

\* the query operations that compile and execute a statement
Terminal == {"all", "first", "last", "query_update", "query_delete"}

\* the statement the last terminal call executed, as its sequence of clauses
LastSql == last.log[1].sql

\* the place of a clause in the fixed order; the statement's head is 0
ClausePlace(kw) ==
    IF kw = "JOIN" THEN 1
    ELSE IF kw = "WHERE" THEN 2
    ELSE IF kw = "GROUP BY" THEN 3
    ELSE IF kw = "ORDER BY" THEN 4
    ELSE IF kw = "LIMIT" THEN 5
    ELSE 0

Keywords(sql) == [i \in 1..Len(sql) |-> sql[i][1]]

\* how many clauses of the statement carry the keyword
Count(sql, kw) == Cardinality({i \in 1..Len(sql) : sql[i][1] = kw})

\* a clause is in the statement only when its directive is set on the query
OnlyWhenGiven(sql) ==
    /\ Count(sql, "JOIN") > 0 => q.joins # <<>>
    /\ Count(sql, "WHERE") > 0 => q.filter_exprs # <<>>
    /\ Count(sql, "GROUP BY") > 0 => q.group_by # <<>>
    /\ Count(sql, "ORDER BY") > 0 => q.order_by # <<>>
    /\ Count(sql, "LIMIT") > 0 => q.limit # None

LastParams == last.log[1].params

\* the tokens of the clauses of a statement that carry the keyword
TokensOf(sql, kw) ==
    UNION {UNION {Range(sql[i][2][j]) : j \in 1..Len(sql[i][2])} :
              i \in {n \in 1..Len(sql) : sql[n][1] = kw}}

\* the placeholders of a statement, in text order: <<clause, item>> positions
Placeholders(sql) ==
    UNION {{<<i, j>> : j \in {n \in 1..Len(sql[i][2]) : "?" \in Range(sql[i][2][n])}} :
              i \in 1..Len(sql)}

\* the values Query.update sets, in keyword order
SetParams == IF last.op = "query_update"
             THEN [i \in 1..Len(KwSeq(q.model, last.args)) |->
                      last.args[KwSeq(q.model, last.args)[i]]]
             ELSE <<>>

\* C13: in every statement compiled by Query.all, Query.update and
\* Query.delete each filter value is passed in the parameter sequence and is
\* not in the SQL text; the statement has as many '?' placeholders as
\* parameters, and the i-th parameter is the value of the i-th placeholder: for
\* update the SET values in keyword order, then the filter values in append
\* order.
C13_ValuesAreParameters ==
    last.op \in Terminal =>
        /\ Cardinality(Placeholders(LastSql)) = Len(LastParams)
        /\ LastParams = SetParams \o [i \in 1..Len(q.filter_exprs) |-> q.filter_exprs[i][3]]
        /\ ClauseItems(LastSql, "WHERE") =
               [i \in 1..Len(q.filter_exprs) |->
                   <<q.filter_exprs[i][1], q.filter_exprs[i][2], "?">>]
        /\ ClauseItems(LastSql, "SET") =
               [i \in 1..Len(SetParams) |-> <<KwSeq(q.model, last.args)[i], "=", "?">>]
        /\ \A i \in 1..Len(q.filter_exprs) :
              Repr(q.filter_exprs[i][3]) \notin TokensOf(LastSql, "WHERE")

\* Query.update ran with two keywords on a query with two filter expressions
\* and changed a row
C13_TwoSetTwoFilters ==
    /\ last.op = "query_update"
    /\ ~last.raised
    /\ Len(LastParams) = 4
    /\ LastParams[1] = <<"str", 2>>
    /\ LastParams[3] # LastParams[4]
    /\ \E id \in DOMAIN UserRows : UserRows[id]["age"] = <<"int", 1>>

\* what first() is to return for the sequence that all() returns
HeadOrNone(results) == IF results = <<>> THEN <<>> ELSE <<results[1]>>

\* what last() is to return for the sequence that all() returns
FinalOrNone(results) == IF results = <<>> THEN <<>> ELSE <<results[Len(results)]>>

\* C14: for any query, first() returns the first element of the sequence that
\* all() returns for that query and last() returns its final element; each
\* returns None (here the empty result) exactly when that sequence is empty.
C14_FirstLastOfAll ==
    [][/\ last'.op = "first" =>
             \A build \in BOOLEAN :
                 First(build) =>
                     /\ last'.raised = all(q, db, build).raised
                     /\ last'.result = HeadOrNone(all(q, db, build).result)
       /\ last'.op = "last" =>
             \A build \in BOOLEAN :
                 QueryLast(build) =>
                     /\ last'.raised = all(q, db, build).raised
                     /\ last'.result = FinalOrNone(all(q, db, build).result)]_vars

\* C20: first() leaves the query's accumulated directives unchanged: an all()
\* on the same query object afterwards returns the rows it would have returned
\* had first() not been called, and a limit set earlier is still in force.
C20_FirstKeepsQuery ==
    [][last'.op = "first" =>
          /\ q'.limit = q.limit
          /\ q' = q
          /\ \A build \in BOOLEAN :
                all(q', db', build).result = all(q, db, build).result]_vars

\* the text is YYYY-MM-DD
DateShaped(chars) ==
    /\ Len(chars) = 10
    /\ chars[5] = "-"
    /\ chars[8] = "-"

\* the text is an ISO-8601 date, a space and HH:MM:SS, with or without .ffffff
DateTimeShaped(chars) ==
    /\ Len(chars) \in {19, 26}
    /\ DateShaped(SubSeq(chars, 1, 10))
    /\ chars[11] = " "
    /\ chars[14] = ":"
    /\ chars[17] = ":"
    /\ Len(chars) = 26 => chars[20] = "."

\* the storage form of a column's value: Boolean as 0 or 1, Date and DateTime as
\* ISO-8601 text
StoredForm(type, value) ==
    \/ value = <<"none", 0>>
    \/ type \in {"Integer", "String", "Text"}
    \/ type = "Boolean" /\ value \in {<<"int", 0>>, <<"int", 1>>}
    \/ type = "Date" /\ value[1] = "text" /\ DateShaped(value[2])
    \/ type = "DateTime" /\ value[1] = "text" /\ DateTimeShaped(value[2])

\* the record that the query after the step returns for the primary key pk
ReadBack(pk) ==
    {all(Query("User"), db', FALSE).result[i] :
        i \in {n \in 1..Len(all(Query("User"), db', FALSE).result) :
                  all(Query("User"), db', FALSE).result[n]["id"] = pk}}

\* C15: for every field type and every host value v of that type
\* to_python(to_db(v)) = v, so a value given to a column, committed and read
\* back by a query equals the value given; Boolean is stored as 0/1 and Date
\* and DateTime as ISO-8601 text.
C15_RoundTrip ==
    [][/\ \A kwargs \in FieldKwargs :
             Construct("User", kwargs) =>
                 \A c \in DOMAIN kwargs :
                     ToPython(ColType("User", c), ToDb(ColType("User", c), kwargs[c])) = kwargs[c]
       /\ \A o \in Objs : \A c \in FieldCols : \A v \in FieldValues(c) :
             Assign(o, c, v) =>
                 /\ ToPython(ColType("User", c), ToDb(ColType("User", c), v)) = v
                 /\ ToPython(ColType("User", c), objs'[o].dict[c]) = v
       /\ \A o \in Objs :
             (/\ last'.op = "commit"
              /\ ~last'.raised
              /\ new \cup dirty \cup deleted = {o}
              /\ o \notin deleted)
             => /\ ReadBack(objs'[o].dict["id"]) # {}
                /\ \A r \in ReadBack(objs'[o].dict["id"]) :
                      \A c \in DOMAIN objs[o].dict \ {"id"} :
                          r[c] = ToPython(ColType("User", c), objs[o].dict[c])
       /\ \A id \in DOMAIN db'["users"].rows : \A c \in ColNames("User") :
             StoredForm(ColType("User", c), db'["users"].rows[id][c])]_vars

\* a query returned the datetime that was assigned to a loaded instance and
\* committed, and the table holds it as ISO-8601 text
C15_ReadBackTypes ==
    /\ last.op = "all"
    /\ \E i \in 1..Len(last.result) :
          last.result[i]["created_at"] = <<"datetime", <<2024, 6, 11, 8, 30, 0, 5>>>>
    /\ \E id \in DOMAIN UserRows :
          UserRows[id]["created_at"] =
              <<"text", <<"2", "0", "2", "4", "-", "0", "6", "-", "1", "1", " ", "0", "8", ":",
                          "3", "0", ":", "0", "0", ".", "0", "0", "0", "0", "0", "5">>>>
    /\ \E o \in Objs \ (new \cup dirty) :
          /\ DOMAIN objs[o].dict = ColNames("User")
          /\ objs[o].dict["created_at"] = <<"datetime", <<2024, 6, 11, 8, 30, 0, 5>>>>
    /\ \E o \in Objs :
          /\ DOMAIN objs[o].dict = {"id", "created_at"}
          /\ objs[o].dict["created_at"] =
                 <<"text", <<"2", "0", "2", "3", "-", "0", "1", "-", "0", "1", " ", "1", "2", ":",
                             "0", "0", ":", "0", "0">>>>

\* C16: create_all is idempotent: it issues one CREATE TABLE IF NOT EXISTS for
\* every registered schema, and a call at any later point, also after rows were
\* inserted, leaves the set of tables and every stored row unchanged and raises
\* no error.
C16_CreateAllIdempotent ==
    [][last'.op = "create_all" =>
          /\ ~last'.raised
          /\ Len(last'.log) = Cardinality(Models)
          /\ \A m \in Models :
                Cardinality({i \in 1..Len(last'.log) :
                                /\ last'.log[i].verb = "CREATE TABLE IF NOT EXISTS"
                                /\ last'.log[i].table = Tablename(m)
                                /\ last'.log[i].ok}) = 1
          /\ DOMAIN db' = DOMAIN db
          /\ \A t \in DOMAIN db : db'[t] = db[t]]_vars

\* create_all ran again on a store whose tables users and notes both hold rows
C16_CreatedAgain ==
    /\ last.op = "create_all"
    /\ DOMAIN db = {"users", "notes"}
    /\ DOMAIN UserRows # {}
    /\ DOMAIN db["notes"].rows # {}

\* the statements of the flush just run that were built for instance o
StatementsFor(o, verb) ==
    {i \in 1..Len(last'.log) : last'.log[i].obj = o /\ last'.log[i].verb = verb}

\* C17: when flush meets an instance in dirty or deleted whose schema has no
\* primary key, it executes no statement for that instance and raises no error,
\* and the other instances staged in the same flush are still processed.
C17_SkipWithoutPk ==
    [][(/\ last'.op \in {"flush", "commit"}
        /\ \E o \in dirty \cup deleted : PkColumns(objs[o].cls) = {})
       => /\ \A o \in dirty : PkColumns(objs[o].cls) = {} => StatementsFor(o, "UPDATE") = {}
          /\ \A o \in deleted : PkColumns(objs[o].cls) = {} => StatementsFor(o, "DELETE") = {}
          /\ last'.raised => (last'.log # <<>> /\ ~last'.log[Len(last'.log)].ok)
          /\ ~last'.raised =>
                /\ \A o \in new : StatementsFor(o, "INSERT") # {}
                /\ \A o \in dirty : PkColumns(objs[o].cls) # {} => StatementsFor(o, "UPDATE") # {}
                /\ \A o \in deleted : PkColumns(objs[o].cls) # {} => StatementsFor(o, "DELETE") # {}]_vars

\* a flush returned with an instance without primary key staged in dirty and in
\* deleted, and executed the UPDATE of another instance
C17_SkippedAndProcessed ==
    /\ last.op \in {"flush", "commit"}
    /\ ~last.raised
    /\ \E o \in dirty \cap deleted : PkColumns(objs[o].cls) = {}
    /\ \E i \in 1..Len(last.log) : last.log[i].verb = "UPDATE" /\ last.log[i].ok

\* the pending set a statement's instance is taken from
PendingOf(verb, n, d, x) ==
    IF verb = "INSERT" THEN n ELSE IF verb = "UPDATE" THEN d ELSE x

\* C18: when a store call fails during flush the error propagates at once and
\* nothing is retried: the instances whose statements succeeded before have
\* left their pending sets and their statements stay in effect, the failing
\* instance and every instance not yet processed remain in their pending sets,
\* and commit does not call the store's commit.
C18_FailurePropagates ==
    [][(last'.op \in {"flush", "commit"} /\ last'.raised) =>
          /\ last'.log # <<>>
          /\ \A i \in 1..Len(last'.log) : last'.log[i].ok <=> i < Len(last'.log)
          /\ \A i \in 1..Len(last'.log) :
                /\ last'.log[i].obj \in PendingOf(last'.log[i].verb, new, dirty, deleted)
                /\ (last'.log[i].obj \in PendingOf(last'.log[i].verb, new', dirty', deleted'))
                       <=> i = Len(last'.log)
                /\ \A j \in 1..Len(last'.log) :
                      (last'.log[j].obj = last'.log[i].obj /\ last'.log[j].verb = last'.log[i].verb)
                          => i = j
          /\ \A verb \in {"INSERT", "UPDATE", "DELETE"} :
                \A o \in PendingOf(verb, new, dirty, deleted) :
                    StatementsFor(o, verb) = {} => o \in PendingOf(verb, new', dirty', deleted')
          /\ new' \subseteq new
          /\ dirty' \subseteq dirty
          /\ deleted' \subseteq deleted
          /\ \A i \in 1..(Len(last'.log) - 1) :
                /\ last'.log[i].verb = "INSERT" =>
                      /\ last'.log[i].key[2] \in DOMAIN db'[last'.log[i].table].rows
                      /\ last'.log[i].key[2] \notin DOMAIN db[last'.log[i].table].rows
                      /\ \A c \in DOMAIN objs[last'.log[i].obj].dict \ PkColumns(objs[last'.log[i].obj].cls) :
                            db'[last'.log[i].table].rows[last'.log[i].key[2]][c]
                                = objs[last'.log[i].obj].dict[c]
                /\ (/\ last'.log[i].verb = "UPDATE"
                    /\ last'.log[i].key[1] = "int"
                    /\ last'.log[i].key[2] \in DOMAIN db'[last'.log[i].table].rows
                    /\ \A j \in (i + 1)..(Len(last'.log) - 1) :
                          last'.log[j].verb = "UPDATE" => last'.log[j].key # last'.log[i].key)
                   => \A n \in 1..Len(last'.log[i].cols) :
                         db'[last'.log[i].table].rows[last'.log[i].key[2]][last'.log[i].cols[n]]
                             = objs[last'.log[i].obj].dict[last'.log[i].cols[n]]
          /\ ~last'.committed]_vars

\* a commit raised at its second statement: the first inserted a row that is in
\* the table, its instance has left new, and the failing instance is still
\* in new
C18_PartialFlush ==
    /\ last.op = "commit"
    /\ last.raised
    /\ Len(last.log) = 2
    /\ last.log[1].verb = "INSERT"
    /\ last.log[1].obj \notin new
    /\ last.log[1].key[2] \in DOMAIN db[last.log[1].table].rows
    /\ last.log[2].obj \in new \cup dirty
    /\ ~last.committed


\* the instance is persisted: its primary key is the key of a row of its table
Persisted(o) ==
    \E pk \in PkColumns(objs[o].cls) :
        /\ GetAttr(objs[o], pk)[1] = "int"
        /\ GetAttr(objs[o], pk)[2] \in DOMAIN db[Tablename(objs[o].cls)].rows

\* C19: Session.update assigns every given field on the instance and leaves
\* the instance in dirty, and Session.delete leaves the instance in deleted,
\* both whether or not the instance was added before; after the next
\* successful commit a persisted instance staged by delete has no row with its
\* primary key left in its table, also when it was staged in dirty as well.
C19_UpdateDeleteStage ==
    [][/\ \A o \in Objs : \A kwargs \in UpdateKwargs(objs[o].cls) :
            Update(o, kwargs) =>
                /\ o \in dirty'
                /\ \A k \in DOMAIN kwargs : GetAttr(objs'[o], k) = kwargs[k]
       /\ \A o \in Objs : Delete(o) => o \in deleted'
       /\ (last'.op = "commit" /\ ~last'.raised) =>
             \A o \in deleted : Persisted(o) =>
                 \A pk \in PkColumns(objs[o].cls) :
                     GetAttr(objs[o], pk)[2] \notin DOMAIN db'[Tablename(objs[o].cls)].rows]_vars

\* a commit succeeded that executed the UPDATE and then the DELETE of one
\* instance that carries the key of a stored row and the updated name; no row
\* with that key is left
C19_DirtyAndDeleted ==
    /\ last.op = "commit"
    /\ ~last.raised
    /\ last.committed
    /\ \E i, j \in 1..Len(last.log) :
          /\ i < j
          /\ last.log[i].verb = "UPDATE"
          /\ last.log[j].verb = "DELETE"
          /\ last.log[i].obj = last.log[j].obj
          /\ last.log[j].key[1] = "int"
          /\ last.log[j].key[2] \notin DOMAIN db[last.log[j].table].rows
          /\ GetAttr(objs[last.log[j].obj], "name") = StrV(2)
          /\ last.log[j].obj \notin new \cup dirty \cup deleted


\* C21: the table contents after flush are a function of the table contents
\* before it and of the contents of the three pending sets: whatever the order
\* in which each set is iterated, the flush leaves the same tables; in
\* particular two instances of one row staged in dirty with different values
\* leave the same stored row in every execution.
C21_FlushOrderIndependent ==
    [][last'.op \in {"flush", "commit"} =>
          \A no \in Orders(new), do \in Orders(dirty), xo \in Orders(deleted) :
              Flushed(no, do, xo).db = db']_vars


(***************************************************************************)
(* StaleSpec: instances loaded from the users table of BInit while the     *)
(* store changes under them.  The caller assigns only `name` on the        *)
(* instances it loaded and stages them with add; the only other writer is  *)
(* session.query(User).update(age=1).                                      *)
(***************************************************************************)
StaleNext ==
    \/ \E keep \in 0..MaxRowid : QueryAll("User", keep)
    \/ \E o \in Objs : Assign(o, "name", StrV(3))
    \/ \E o \in Objs : Add(o)
    \/ Flush
    \/ Commit
    \/ NewQuery("User")
    \/ \E build \in BOOLEAN : QueryUpdate(("age" :> IntV(1)), build)

StaleSpec == BInit /\ [][StaleNext]_vars

\* C22: flushing a dirty instance changes only the columns the caller assigned
\* on it since it was loaded.  The callers of StaleSpec assign only `name`, so
\* a flush leaves every other column of every row as the store held it, also
\* when Query.update changed that column after the instance was loaded.
C22_FlushKeepsUnassigned ==
    [][last'.op \in {"flush", "commit"} =>
          \A k \in DOMAIN db["users"].rows \cap DOMAIN db'["users"].rows :
              \A c \in ColNames("User") \ {"name"} :
                  db'["users"].rows[k][c] = db["users"].rows[k][c]]_vars


(***************************************************************************)
(* OrderSpec: a caller that stages its instances in the order it built     *)
(* them: add and add_all are called only with instances built after every  *)
(* instance now in new, so that the staging order of new is the order of   *)
(* the instances' indices in objs.                                         *)
(***************************************************************************)
OrderNext ==
    \/ \E model \in Models : \E kwargs \in Kwargs(model) : Construct(model, kwargs)
    \/ \E o \in Objs : objs[o].cls = "User" /\ Assign(o, "name", StrV(2))
    \/ \E o \in Objs : (\A p \in new : p < o) /\ Add(o)
    \/ \E o1, o2 \in Objs : o1 < o2 /\ (\A p \in new : p < o1) /\ AddAll(<<o1, o2>>)
    \/ Flush
    \/ Commit

OrderSpec == Init /\ [][OrderNext]_vars

\* C23: the INSERT statements of one flush are executed in the order in which
\* the instances were staged by add / add_all, so that the keys the store
\* generates for one table increase in staging order.
C23_InsertsInStagingOrder ==
    [][last'.op \in {"flush", "commit"} =>
          \A i, j \in 1..Len(last'.log) :
              (i < j /\ last'.log[i].verb = "INSERT" /\ last'.log[j].verb = "INSERT") =>
                  /\ last'.log[i].obj < last'.log[j].obj
                  /\ (last'.log[i].ok /\ last'.log[j].ok
                        /\ last'.log[i].table = last'.log[j].table)
                       => last'.log[i].key[2] < last'.log[j].key[2]]_vars


(***************************************************************************)
(* PkSpec: the session operations on instances of User whose primary key   *)
(* the caller leaves to the store or sets itself, to 0 or to 1.            *)
(***************************************************************************)
PkChoices ==
    {("name" :> StrV(1)), ("id" :> IntV(0)) @@ ("name" :> StrV(1)),
     ("id" :> IntV(1)) @@ ("name" :> StrV(1))}

PkNext ==
    \/ \E kwargs \in PkChoices : Construct("User", kwargs)
    \/ \E o \in Objs : Add(o)
    \/ \E o1, o2 \in Objs : AddAll(<<o1, o2>>)
    \/ \E o \in Objs : Update(o, ("name" :> StrV(2)))
    \/ Flush
    \/ Commit

PkSpec == Init /\ [][PkNext]_vars

\* C24: an instance whose schema has a primary key gets at most one INSERT:
\* once a flush has inserted it, it has left new and carries a primary key
\* with which add routes it to dirty and not to new, so that every later
\* flush issues an UPDATE for it and never a second INSERT.
C24_InsertedOnce ==
    [][/\ last'.op \in {"flush", "commit"} =>
            \A i \in 1..Len(last'.log) :
                (/\ last'.log[i].verb = "INSERT"
                 /\ last'.log[i].ok
                 /\ PkColumns(objs[last'.log[i].obj].cls) # {})
                => /\ last'.log[i].obj \notin new'
                   /\ ~PkIsUnset(objs'[last'.log[i].obj])
                   /\ \A j \in 1..Len(last'.log) :
                         (last'.log[j].verb = "INSERT" /\ last'.log[j].obj = last'.log[i].obj)
                             => j = i
       /\ \A o \in Objs :
            (PkColumns(objs[o].cls) # {} /\ ~PkIsUnset(objs[o]) /\ Add(o))
                => (o \in dirty' /\ new' = new)]_vars
====
